---- MODULE Spec2Model ----
(***************************************************************************)
(* The note pipeline of music-2-notes: segment_notes, merge_same_pitch_-    *)
(* notes, refine_onsets, filter_short_notes and filter_key_outliers, as    *)
(* chained by _stage_segment; post_process_pitch before them and           *)
(* generate_midi after them; and the worker around them: process_audio_job *)
(* with the job's row in the store, _send_webhook and get_job_result.      *)
(*                                                                         *)
(* Fixed-point units (the code computes in binary floating point; the      *)
(* model computes exactly on these grids, except where the rounding of a   *)
(* float decides: _maybe_add_note's duration test, Note.end_time and the   *)
(* gaps, clamps and event times computed from it, and _find_best_key's     *)
(* comparison of equal correlations):                                      *)
(*   time        1 = 0.0001 s  (the grid of round(x, 4))                   *)
(*   frequency   1 = 0.01 Hz   (the grid of round(x, 2))                   *)
(*   confidence  1 = 0.001     (the grid of round(x, 3))                   *)
(*   energy      1 = 0.0001    (RMS)                                       *)
(***************************************************************************)
EXTENDS Integers, Sequences, FiniteSets, TLC

VARIABLES
    pc,              \* position of the run: which statement executes next
    frames,          \* list[PitchFrame] given to segment_notes
    energy,          \* per-frame RMS energy array
    trim_offset,     \* seconds of leading silence removed by preprocess_audio
    threshold,       \* energy threshold, scaled by ThrScale
    i,               \* loop index (1-based) of the loop being executed
    current_midi,    \* segment_notes: MIDI number of the open note, or NoMidi
    note_start,      \* segment_notes: start time of the open note
    note_freqs,      \* segment_notes: buffered frequencies of the open note
    note_confs,      \* segment_notes: buffered confidences of the open note
    note_energies,   \* segment_notes: buffered energies of the open note
    notes,           \* the note list passed from stage to stage
    out,             \* the list being built by the running loop (merged / refined)
    section_keys,    \* list[SectionKey] returned by filter_key_outliers
    key_window,      \* <<window_seconds, overlap_seconds>> of the key detector
    events,          \* generate_midi: the event list, sorted once built
    track,           \* generate_midi: the messages appended to the track
    last_tick,       \* generate_midi: absolute tick of the last message
    call,            \* the arguments of a Note(...) call made on its own
    job,             \* the job's committed row in the store, or NoJob
    exc,             \* the text of the exception a raising step raises
    attempt,         \* _send_webhook: the loop variable
    posts,           \* _send_webhook: the outcome of every POST made
    waits,           \* _send_webhook: the seconds of every sleep made
    api,             \* the last answer of GET /jobs/{id}/result
    rounding         \* _find_best_key: how the floats of equal correlations fell, per call

midi_vars == <<events, track, last_tick>>

job_vars == <<call, job, exc, attempt, posts, waits, api>>

key_vars == <<rounding>>

vars == <<pc, frames, energy, trim_offset, threshold, i, current_midi, note_start,
          note_freqs, note_confs, note_energies, notes, out, section_keys, key_window,
          events, track, last_tick, call, job, exc, attempt, posts, waits, api, rounding>>

-----------------------------------------------------------------------------
(* Bounds of the model.                                                    *)

\* Most runs of equal frames a frame sequence is built from.
MaxRuns == 3

\* Most frames given to post_process_pitch, and most passes of it over them.
MaxPitchFrames == 7
MaxPasses == 2

-----------------------------------------------------------------------------
(* Program constants.                                                      *)

Hop == 100                       \* 0.01 s between frames
MinFreq == 8000                  \* min_freq = 80.0 Hz
MinNoteDuration == 500           \* min_note_duration = 0.05 s
ConfidenceThreshold == 500       \* confidence_threshold = 0.5
NoteMergeMaxGap == 800           \* NOTE_MERGE_MAX_GAP = 0.08 s
PostMergeMinDuration == 600      \* POST_MERGE_MIN_DURATION = 0.06 s
OnsetLookbackFrames == 5         \* ONSET_LOOKBACK_FRAMES
ThresholdFloor == 50             \* 0.005, the floor of compute_energy_threshold
ThrScale == 100                  \* the threshold is held as threshold * ThrScale
NoMidi == -1                     \* current_midi is None
NoEnergy == -1                   \* Note.energy is None
PitchMedianWindow == 5           \* PITCH_MEDIAN_WINDOW, frames
VibratoSmoothWindow == 13        \* VIBRATO_SMOOTH_WINDOW, frames
MinVoicedConfidence == 100       \* min_voiced_confidence = 0.1
WebhookMaxRetries == 5           \* WEBHOOK_MAX_RETRIES
NoProgress == -1                 \* update_job_status: progress is None
MinVel == 30                     \* _energy_to_velocity min_vel
MaxVel == 120                    \* _energy_to_velocity max_vel

-----------------------------------------------------------------------------
(* Arithmetic helpers.                                                     *)

Max(a, b) == IF a >= b THEN a ELSE b
Min(a, b) == IF a <= b THEN a ELSE b
Abs(n) == IF n < 0 THEN -n ELSE n

RECURSIVE SumSeq(_)
SumSeq(s) == IF s = <<>> THEN 0 ELSE Head(s) + SumSeq(Tail(s))

\* round(a / b) for a >= 0, b > 0, ties to even as Python's round does.
RoundDiv(a, b) ==
    LET q == a \div b
        r == a % b
    IN  IF 2 * r < b THEN q
        ELSE IF 2 * r > b THEN q + 1
        ELSE IF q % 2 = 0 THEN q ELSE q + 1

-----------------------------------------------------------------------------
(* Binary floating point: Python's float, rounded to the nearest double,   *)
(* ties to the even mantissa.                                              *)
(*                                                                         *)
(* A time of the program is a double next to a multiple of 0.0001 s.  It   *)
(* is held as <<a, u>>: the double u doubles above (u < 0: below) the one  *)
(* nearest to a * 0.0001.  A sum or difference is rounded exactly as the   *)
(* hardware rounds it; the arithmetic that decides it is done on the       *)
(* residues of a * 2^k modulo 20000, which fit the model's integers.       *)
(* Times stay below 8 s.  <<0, u>> is a difference of two doubles next to  *)
(* the same multiple, of the sign of u.                                    *)

FloatMinExp == -14               \* 2^-14 <= 0.0001 < 2^-13

\* floor(log2(a * 0.0001)), a >= 1.
FloatExp(a) ==
    CHOOSE e \in FloatMinExp..2 :
        IF e >= 0 THEN 10000 * 2^e <= a /\ a < 20000 * 2^e
        ELSE 10000 <= a * 2^(-e) /\ a * 2^(-e) < 20000

\* 2^k modulo 20000.
RECURSIVE TwoToMod(_)
TwoToMod(k) == IF k = 0 THEN 1 ELSE (2 * TwoToMod(k - 1)) % 20000

\* The double nearest to a * 0.0001 is m * 2^(e - 52), m = round(a * 2^(52 - e)
\* / 10000): <<c, p>> with c = 10000 * m - a * 2^(52 - e) and p the parity
\* of m.  (No tie: a * 2^(52 - e) is a multiple of 16, 5000 is not.)
Nearest(a) ==
    LET t == (a * TwoToMod(52 - FloatExp(a))) % 20000
        q == t % 10000
    IN  IF q < 5000 THEN <<-q, (t \div 10000) % 2>>
        ELSE <<10000 - q, ((t \div 10000) + 1) % 2>>

\* a * 0.0001 is a power of two: the doubles below it lie half as far apart
\* as those above.
IsPowerOfTwo(a) == a \in {625, 1250, 2500, 5000, 10000, 20000, 40000}

\* The distance between the doubles of a's binade, in units of
\* 2^(FloatMinExp - 52) / 10000.
FloatStep(a) == 10000 * 2^(FloatExp(a) - FloatMinExp)

\* x - x[1] * 0.0001 in those units.
FloatErr(x) ==
    IF x[1] = 0 THEN 0
    ELSE Nearest(x[1])[1] * 2^(FloatExp(x[1]) - FloatMinExp)
         + x[2] * (IF x[2] < 0 /\ IsPowerOfTwo(x[1]) THEN FloatStep(x[1]) \div 2
                   ELSE FloatStep(x[1]))

\* The double nearest to g * 0.0001 + delta units, g >= 0.
FloatRound(g, delta) ==
    IF g = 0 THEN <<0, IF delta > 0 THEN 1 ELSE IF delta < 0 THEN -1 ELSE 0>>
    ELSE LET near == Nearest(g)
             d == delta - near[1] * 2^(FloatExp(g) - FloatMinExp)
             step == IF d < 0 /\ IsPowerOfTwo(g) THEN FloatStep(g) \div 2
                     ELSE FloatStep(g)
             k == Abs(d) \div step
             r == Abs(d) % step
             up == 2 * r > step \/ (2 * r = step /\ (near[2] + k) % 2 = 1)
         IN  <<g, (IF d < 0 THEN -1 ELSE 1) * (IF up THEN k + 1 ELSE k)>>

\* x + y and x - y.
FloatAdd(x, y) == FloatRound(x[1] + y[1], FloatErr(x) + FloatErr(y))

FloatSub(x, y) ==
    IF x[1] >= y[1] THEN FloatRound(x[1] - y[1], FloatErr(x) - FloatErr(y))
    ELSE LET r == FloatRound(y[1] - x[1], FloatErr(y) - FloatErr(x))
         IN  <<-r[1], -r[2]>>

\* x < y.
FloatLess(x, y) == x[1] < y[1] \/ (x[1] = y[1] /\ x[2] < y[2])

-----------------------------------------------------------------------------
(* utils/converters.py: hz_to_midi.                                        *)

\* HzLower[m], m in 1..127: the least frequency (0.01 Hz) whose
\* round(69 + 12*log2(f/440)) is at least m.
HzLower ==
    << 842, 892, 945, 1001, 1061, 1124, 1191, 1261, 1336, 1416,
       1500, 1589, 1684, 1784, 1890, 2002, 2121, 2247, 2381, 2522,
       2672, 2831, 2999, 3178, 3367, 3567, 3779, 4004, 4242, 4494,
       4761, 5044, 5344, 5662, 5998, 6355, 6733, 7133, 7557, 8007,
       8483, 8987, 9521, 10088, 10687, 11323, 11996, 12709, 13465, 14266,
       15114, 16013, 16965, 17974, 19042, 20175, 21374, 22645, 23992, 25418,
       26930, 28531, 30227, 32025, 33929, 35947, 38084, 40349, 42748, 45290,
       47983, 50836, 53859, 57061, 60454, 64049, 67858, 71893, 76168, 80697,
       85495, 90579, 95965, 101672, 107717, 114122, 120908, 128098, 135715, 143785,
       152335, 161393, 170990, 181158, 191930, 203343, 215434, 228244, 241816, 256195,
       271430, 287570, 304669, 322786, 341980, 362315, 383859, 406685, 430867, 456488,
       483632, 512390, 542859, 575139, 609338, 645571, 683959, 724629, 767718, 813369,
       861734, 912976, 967264, 1024780, 1085717, 1150277, 1218676 >>

\* max(0, min(127, int(round(69 + 12 * log2(frequency / 440))))), frequency > 0.
\* The greatest m in lo..hi with frequency >= HzLower[m], HzLower[lo] included,
\* by bisection.
RECURSIVE MidiIn(_, _, _)
MidiIn(frequency, lo, hi) ==
    IF lo = hi THEN lo
    ELSE LET mid == (lo + hi + 1) \div 2
         IN  IF frequency >= HzLower[mid] THEN MidiIn(frequency, mid, hi)
             ELSE MidiIn(frequency, lo, mid - 1)

hz_to_midi(frequency) ==
    IF frequency < HzLower[1] THEN 0 ELSE MidiIn(frequency, 1, 127)

-----------------------------------------------------------------------------
(* audio/models.py: Note and _energy_to_velocity.                          *)

\* VelocityLower[k], k in 1..90: the least energy (0.0001) whose
\* int(30 + clamp((20*log10(e) + 46) / 40, 0, 1) * 90) is at least 30 + k.
VelocityLower ==
    << 53, 56, 59, 62, 65, 69, 72, 76, 80, 84,
       88, 93, 98, 103, 108, 114, 120, 126, 133, 140,
       147, 155, 163, 172, 181, 190, 200, 211, 222, 233,
       245, 258, 272, 286, 301, 317, 333, 351, 369, 389,
       409, 430, 453, 477, 502, 528, 556, 585, 616, 648,
       682, 718, 755, 795, 837, 880, 927, 975, 1026, 1080,
       1137, 1197, 1259, 1326, 1395, 1468, 1545, 1626, 1712, 1802,
       1896, 1996, 2101, 2211, 2327, 2449, 2577, 2713, 2855, 3005,
       3163, 3329, 3504, 3687, 3881, 4085, 4299, 4525, 4762, 5012 >>

_energy_to_velocity(e) ==
    IF e <= 0 THEN MinVel
    ELSE LET velocity ==
                 MinVel + Cardinality({k \in 1..(MaxVel - MinVel) : e >= VelocityLower[k]})
         IN  Max(0, Min(127, velocity))

\* The velocity Note.__post_init__ computes when none is given.
NoteVelocity(confidence, e) ==
    IF e # NoEnergy /\ e > 0 THEN _energy_to_velocity(e)
    ELSE (confidence * 77) \div 1000 + 50

\* Note.__post_init__ raises ValueError.
NoteRaises(midi_number, start_time, duration, frequency, confidence, e) ==
    \/ ~(0 <= midi_number /\ midi_number <= 127)
    \/ start_time < 0
    \/ duration <= 0
    \/ frequency <= 0
    \/ ~(0 <= confidence /\ confidence <= 1000)
    \/ ~(0 <= NoteVelocity(confidence, e) /\ NoteVelocity(confidence, e) <= 127)

\* The Note a successful construction yields (note_name is a function of
\* midi_number and is not held).  start_time is the double start_ulps doubles
\* from the one nearest to start_time * 0.0001: 0 for a time that round(x, 4)
\* returned, as is every duration.
Note(midi_number, start_time, duration, frequency, confidence, e) ==
    [midi_number |-> midi_number, start_time |-> start_time, start_ulps |-> 0,
     duration |-> duration, frequency |-> frequency, confidence |-> confidence,
     velocity |-> NoteVelocity(confidence, e), energy |-> e]

\* The grid value next to Note.end_time.
end_time(note) == note.start_time + note.duration

start_time_float(note) == <<note.start_time, note.start_ulps>>

\* Note.end_time: the float sum start_time + duration.
end_time_float(note) == FloatAdd(start_time_float(note), <<note.duration, 0>>)

-----------------------------------------------------------------------------
(* audio/preprocessor.py: compute_energy_threshold.                        *)

\* The k-th smallest element (k from 0) of a non-empty sequence of integers.
KthSmallest(s, k) ==
    LET vals == {s[j] : j \in 1..Len(s)}
        atMost(v) == Cardinality({j \in 1..Len(s) : s[j] <= v})
    IN  CHOOSE v \in vals : atMost(v) >= k + 1 /\
            \A w \in vals : atMost(w) >= k + 1 => v <= w

\* np.percentile(e, 15) * ThrScale, linear interpolation between order statistics.
Percentile15(e) ==
    LET n == Len(e)
        pos == 15 * (n - 1)          \* position * 100
        lo == pos \div 100
        fr == pos % 100
        a == KthSmallest(e, lo)
        b == IF lo + 1 < n THEN KthSmallest(e, lo + 1) ELSE a
    IN  ThrScale * a + fr * (b - a)

\* np.median(e) * 0.1 * ThrScale.
MedianCap(e) ==
    LET n == Len(e)
    IN  IF n % 2 = 1 THEN 10 * KthSmallest(e, n \div 2)
        ELSE 5 * (KthSmallest(e, n \div 2 - 1) + KthSmallest(e, n \div 2))

\* The threshold without its floor.
compute_energy_threshold_unfloored(e) ==
    Min(Percentile15(e), MedianCap(e))

\* max(min(p15, cap), 0.005) * ThrScale.
compute_energy_threshold(e) ==
    Max(Min(Percentile15(e), MedianCap(e)), ThresholdFloor * ThrScale)

-----------------------------------------------------------------------------
(* Inputs: what detect_pitches and compute_frame_energy hand to the stage. *)

RECURSIVE Expand(_)
Expand(runs) ==
    IF runs = <<>> THEN <<>>
    ELSE [k \in 1..Head(runs)[2] |-> Head(runs)[1]] \o Expand(Tail(runs))

\* detect_pitches: frame k (from 1) carries time (k - 1) * 10 ms.
PitchFrames(kinds) ==
    [k \in 1..Len(kinds) |->
        [time |-> (k - 1) * Hop, frequency |-> kinds[k].frequency,
         confidence |-> kinds[k].confidence]]

\* compute_frame_energy: one value per hop of audio, and one frame of energy
\* 0 for audio of no frame at all.
EnergyOf(kinds) ==
    IF kinds = <<>> THEN <<0>> ELSE [k \in 1..Len(kinds) |-> kinds[k].energy]

-----------------------------------------------------------------------------
(* audio/pitch_post_processor.py: post_process_pitch.                      *)

\* voiced[k] with the confidence at min_confidence counted as voiced.
VoicedAtLeast(fs, k, min_confidence) ==
    fs[k].frequency > 0 /\ fs[k].confidence >= min_confidence

\* voiced = (freqs > 0) & (confs > min_confidence), at frame k (from 1).
Voiced(fs, k, min_confidence) ==
    fs[k].frequency > 0 /\ fs[k].confidence > min_confidence

\* _find_segments: the segment holding the voiced frame k, as <<start, end>>
\* with both frames in it.
SegmentOf(fs, k, min_confidence) ==
    LET voiced(a, b) == \A j \in a..b : Voiced(fs, j, min_confidence)
        start == CHOOSE a \in 1..k : voiced(a, k) /\ (a = 1 \/ ~voiced(a - 1, k))
        end == CHOOSE b \in k..Len(fs) : voiced(k, b) /\ (b = Len(fs) \/ ~voiced(k, b + 1))
    IN  <<start, end>>

\* median_filter(segment, size=window, mode="reflect") at frame k: the median
\* of the window around k, the segment being extended past each end by its
\* own mirror image (d c b a | a b c d | d c b a).
MedianAt(fs, k, seg, window) ==
    LET half == window \div 2
        reflect(j) == IF j < seg[1] THEN 2 * seg[1] - 1 - j
                      ELSE IF j > seg[2] THEN 2 * seg[2] + 1 - j
                      ELSE j
        w == [j \in 1..window |-> fs[reflect(k - half - 1 + j)].frequency]
    IN  CHOOSE v \in {w[j] : j \in 1..window} :
            /\ Cardinality({j \in 1..window : w[j] < v}) <= half
            /\ Cardinality({j \in 1..window : w[j] <= v}) > half

\* _segmented_median_filter at frame k: the median inside a voiced segment of
\* at least window frames, the frame's own frequency elsewhere.
Filtered(fs, k, window, min_confidence) ==
    IF ~Voiced(fs, k, min_confidence) THEN fs[k].frequency
    ELSE LET seg == SegmentOf(fs, k, min_confidence)
         IN  IF seg[2] - seg[1] + 1 >= window
             THEN MedianAt(fs, k, seg, window)
             ELSE fs[k].frequency

_segmented_median_filter(fs, window, min_confidence) ==
    [k \in 1..Len(fs) |-> [fs[k] EXCEPT !.frequency = Filtered(fs, k, window, min_confidence)]]

\* _smooth_vibrato on fewer than 2 * smooth_window frames: a segment shorter
\* than smooth_window is skipped and no segment reaches analysis_window, so
\* the frequencies are returned as they are.  Longer inputs are not modelled.
_smooth_vibrato(fs, smooth_window) ==
    CHOOSE r \in {fs} : Len(fs) < 2 * smooth_window

\* post_process_pitch: the frames with the cleaned frequencies, or the frames
\* themselves when there are fewer than median_window.
post_process_pitch(fs, median_window, smooth_window, min_confidence) ==
    IF Len(fs) < median_window THEN fs
    ELSE LET cleaned == _smooth_vibrato(
                 _segmented_median_filter(fs, median_window, min_confidence), smooth_window)
         IN  [k \in 1..Len(fs) |->
                [time |-> fs[k].time, frequency |-> Max(cleaned[k].frequency, 0),
                 confidence |-> fs[k].confidence]]

\* A call of post_process_pitch on the frames at hand; out keeps the frames
\* it was given.
PostProcess ==
    /\ pc = "post_process"
    /\ i < MaxPasses
    /\ out' = frames
    /\ frames' = post_process_pitch(frames, PitchMedianWindow, VibratoSmoothWindow,
                                    MinVoicedConfidence)
    /\ i' = i + 1
    /\ UNCHANGED <<pc, energy, trim_offset, threshold, current_midi, note_start,
                   note_freqs, note_confs, note_energies, notes, section_keys, key_window>>
    /\ UNCHANGED <<midi_vars, job_vars, key_vars>>

-----------------------------------------------------------------------------
(* audio/note_segmenter.py: segment_notes.                                 *)

\* The gates with a frame that has no energy entry held to be silent.
is_valid_needs_energy(k) ==
    /\ frames[k].frequency > MinFreq
    /\ frames[k].confidence >= ConfidenceThreshold
    /\ k <= Len(energy)
    /\ energy[k] * ThrScale > threshold

\* Whether frame k passes the three gates of segment_notes.
is_valid(k) ==
    LET has_energy == IF k <= Len(energy) THEN energy[k] * ThrScale > threshold
                      ELSE TRUE
    IN  /\ frames[k].frequency > MinFreq
        /\ frames[k].confidence >= ConfidenceThreshold
        /\ has_energy

frame_energy(k) == IF k <= Len(energy) THEN energy[k] ELSE 0

\* The averages _maybe_add_note hands to the Note constructor.
AvgEnergy(energies) ==
    LET avg == IF energies = <<>> THEN NoEnergy ELSE SumSeq(energies) \div Len(energies)
    IN  IF avg # NoEnergy /\ avg > 0 THEN avg ELSE NoEnergy

\* end - start is computed on binary floating-point frame times and can fall
\* short of the exact difference by one rounding step, which matters when the
\* exact difference is min_duration itself, five hops (differences of other
\* frame counts are at least a hop away from it).  The 0-based frames a < 64
\* for which (a + 5) * 0.01 - a * 0.01 is below 0.05:
FiveHopsShort ==
    {1, 4, 7, 10, 13, 14, 16, 17, 19, 20, 24, 25, 26, 27, 28, 31, 32, 33, 34, 35,
     37, 38, 39, 40, 41, 43, 44, 45, 46, 47, 53, 54, 55, 56, 57}
\* and those for which ((a + 4) * 0.01 + 0.01) - a * 0.01 is, the end of the
\* last note being frames[-1].time + 0.01:
FiveHopsShortAtEnd ==
    {2, 4, 5, 7, 14, 17, 20, 25, 26, 27, 28, 32, 33, 34, 35, 38, 39, 40, 41,
     44, 45, 46, 47, 54, 55, 56, 57}

\* DurationBelow with no candidate too short.
DurationBelowNever(start, end, min_duration) == FALSE

\* duration < min_duration, for the duration end - start _maybe_add_note
\* computes; an end beyond the last frame's time is the sum above.
DurationBelow(start, end, min_duration) ==
    \/ end - start < min_duration
    \/ /\ end - start = min_duration
       /\ min_duration = 5 * Hop
       /\ (start \div Hop) \in (IF end > frames[Len(frames)].time THEN FiveHopsShortAtEnd
                                ELSE FiveHopsShort)

\* _maybe_add_note drops the candidate.
MaybeAddDrops(start, end, frequencies, min_duration) ==
    DurationBelow(start, end, min_duration) \/ frequencies = <<>>

\* _maybe_add_note raises (the Note constructor does).
MaybeAddRaises(midi_number, start, end, frequencies, confidences, energies, min_duration, time_offset) ==
    /\ ~MaybeAddDrops(start, end, frequencies, min_duration)
    /\ NoteRaises(midi_number, start + time_offset, end - start,
                  RoundDiv(SumSeq(frequencies), Len(frequencies)),
                  RoundDiv(SumSeq(confidences), Len(confidences)),
                  AvgEnergy(energies))

\* _maybe_add_note putting the note at the front of ns.
_maybe_add_note_front(ns, midi_number, start, end, frequencies, confidences, energies, min_duration, time_offset) ==
    IF MaybeAddDrops(start, end, frequencies, min_duration) THEN ns
    ELSE <<Note(midi_number, start + time_offset, end - start,
                RoundDiv(SumSeq(frequencies), Len(frequencies)),
                RoundDiv(SumSeq(confidences), Len(confidences)),
                AvgEnergy(energies))>> \o ns

\* The list _maybe_add_note leaves in ns.
_maybe_add_note(ns, midi_number, start, end, frequencies, confidences, energies, min_duration, time_offset) ==
    IF MaybeAddDrops(start, end, frequencies, min_duration) THEN ns
    ELSE Append(ns, Note(midi_number, start + time_offset, end - start,
                         RoundDiv(SumSeq(frequencies), Len(frequencies)),
                         RoundDiv(SumSeq(confidences), Len(confidences)),
                         AvgEnergy(energies)))

\* SameNote without the comparison of MIDI numbers.
SameNoteAlways(midi_num, current) == TRUE

\* The open note continues with a frame of MIDI number midi_num.
SameNote(midi_num, current) == midi_num = current

\* _stage_segment up to the first iteration of segment_notes' loop.
StageSegment ==
    /\ pc = "start"
    /\ threshold' = compute_energy_threshold(energy)
    /\ pc' = "segment"
    /\ i' = 1
    /\ notes' = <<>>
    /\ current_midi' = NoMidi
    /\ note_start' = 0
    /\ note_freqs' = <<>>
    /\ note_confs' = <<>>
    /\ note_energies' = <<>>
    /\ UNCHANGED <<frames, energy, trim_offset, out, section_keys, key_window>>
    /\ UNCHANGED <<midi_vars, job_vars, key_vars>>

\* One iteration of the loop over the frames.
SegmentFrame ==
    /\ pc = "segment"
    /\ i <= Len(frames)
    /\ LET frame == frames[i]
           midi_num == hz_to_midi(frame.frequency)
           open == [m |-> midi_num, s |-> frame.time, f |-> <<frame.frequency>>,
                    c |-> <<frame.confidence>>, e |-> <<frame_energy(i)>>]
           raises == /\ current_midi # NoMidi
                     /\ (~is_valid(i) \/ ~SameNote(midi_num, current_midi))
                     /\ MaybeAddRaises(current_midi, note_start, frame.time, note_freqs,
                                       note_confs, note_energies, MinNoteDuration,
                                       trim_offset)
           closed == _maybe_add_note(notes, current_midi, note_start, frame.time,
                                     note_freqs, note_confs, note_energies,
                                     MinNoteDuration, trim_offset)
       IN  IF raises
           THEN /\ pc' = "error"
                /\ UNCHANGED <<i, notes, current_midi, note_start, note_freqs,
                               note_confs, note_energies>>
           ELSE /\ pc' = pc
                /\ i' = i + 1
                /\ IF is_valid(i)
                   THEN IF current_midi = NoMidi
                        THEN /\ current_midi' = open.m
                             /\ note_start' = open.s
                             /\ note_freqs' = open.f
                             /\ note_confs' = open.c
                             /\ note_energies' = open.e
                             /\ notes' = notes
                        ELSE IF SameNote(midi_num, current_midi)
                        THEN /\ note_freqs' = Append(note_freqs, frame.frequency)
                             /\ note_confs' = Append(note_confs, frame.confidence)
                             /\ note_energies' = Append(note_energies, frame_energy(i))
                             /\ UNCHANGED <<current_midi, note_start, notes>>
                        ELSE /\ notes' = closed
                             /\ current_midi' = open.m
                             /\ note_start' = open.s
                             /\ note_freqs' = open.f
                             /\ note_confs' = open.c
                             /\ note_energies' = open.e
                   ELSE IF current_midi # NoMidi
                        THEN /\ notes' = closed
                             /\ current_midi' = NoMidi
                             /\ note_freqs' = <<>>
                             /\ note_confs' = <<>>
                             /\ note_energies' = <<>>
                             /\ note_start' = note_start
                        ELSE UNCHANGED <<notes, current_midi, note_start, note_freqs,
                                         note_confs, note_energies>>
    /\ UNCHANGED <<frames, energy, trim_offset, threshold, out, section_keys, key_window>>
    /\ UNCHANGED <<midi_vars, job_vars, key_vars>>

\* After the loop: close the last note and return.  Given no frames the
\* function returns [] before the loop, which leaves no note open either.
SegmentClose ==
    /\ pc = "segment"
    /\ i > Len(frames)
    /\ LET end == frames[Len(frames)].time + Hop
           closes == frames # <<>> /\ current_midi # NoMidi /\ note_freqs # <<>>
       IN  IF closes /\ MaybeAddRaises(current_midi, note_start, end, note_freqs,
                                       note_confs, note_energies, MinNoteDuration,
                                       trim_offset)
           THEN pc' = "error" /\ notes' = notes
           ELSE /\ pc' = "merge"
                /\ notes' = IF closes
                            THEN _maybe_add_note(notes, current_midi, note_start, end,
                                                 note_freqs, note_confs, note_energies,
                                                 MinNoteDuration, trim_offset)
                            ELSE notes
    /\ UNCHANGED <<frames, energy, trim_offset, threshold, i, current_midi, note_start,
                   note_freqs, note_confs, note_energies, out, section_keys, key_window>>
    /\ UNCHANGED <<midi_vars, job_vars, key_vars>>

-----------------------------------------------------------------------------
(* audio/note_segmenter.py: merge_same_pitch_notes.                        *)

\* MergeFuses with the operands of the gap swapped.
MergeFusesSwapped(prev, note, max_gap) ==
    LET gap == FloatSub(end_time_float(prev), start_time_float(note))
    IN  /\ note.midi_number = prev.midi_number
        /\ ~FloatLess(gap, <<0, 0>>)
        /\ ~FloatLess(<<max_gap, 0>>, gap)

\* MergeFuses with the gap strictly below max_gap.
MergeFusesStrictGap(prev, note, max_gap) ==
    LET gap == FloatSub(start_time_float(note), end_time_float(prev))
    IN  /\ note.midi_number = prev.midi_number
        /\ ~FloatLess(gap, <<0, 0>>)
        /\ FloatLess(gap, <<max_gap, 0>>)

\* The condition under which the loop fuses note into prev: 0 <= gap <=
\* max_gap, gap the float difference note.start_time - prev.end_time.
MergeFuses(prev, note, max_gap) ==
    LET gap == FloatSub(start_time_float(note), end_time_float(prev))
    IN  /\ note.midi_number = prev.midi_number
        /\ ~FloatLess(gap, <<0, 0>>)
        /\ ~FloatLess(<<max_gap, 0>>, gap)

\* total_dur, and the weighted averages prev.x * w_prev + note.x * w_note with
\* w = duration / total_dur.
FusedDuration(prev, note) ==
    prev.duration + note.duration + (note.start_time - end_time(prev))

WeightedAvg(x_prev, x_note, prev, note) ==
    RoundDiv(x_prev * prev.duration + x_note * note.duration, FusedDuration(prev, note))

FusedEnergy(prev, note) ==
    IF prev.energy # NoEnergy /\ note.energy # NoEnergy
    THEN (prev.energy * prev.duration + note.energy * note.duration)
             \div FusedDuration(prev, note)
    ELSE IF prev.energy # NoEnergy THEN prev.energy
    ELSE IF note.energy # NoEnergy THEN note.energy
    ELSE NoEnergy

FusedRaises(prev, note) ==
    NoteRaises(prev.midi_number, prev.start_time, FusedDuration(prev, note),
               WeightedAvg(prev.frequency, note.frequency, prev, note),
               WeightedAvg(prev.confidence, note.confidence, prev, note),
               FusedEnergy(prev, note))

Fused(prev, note) ==
    [Note(prev.midi_number, prev.start_time, FusedDuration(prev, note),
          WeightedAvg(prev.frequency, note.frequency, prev, note),
          WeightedAvg(prev.confidence, note.confidence, prev, note),
          FusedEnergy(prev, note))
     EXCEPT !.start_ulps = prev.start_ulps]

\* MergeCall without the early return: notes[0] of an empty list raises.
MergeCallUnguarded ==
    /\ pc = "merge"
    /\ IF notes = <<>>
       THEN pc' = "error" /\ UNCHANGED <<out, i>>
       ELSE pc' = "merge_loop" /\ out' = <<notes[1]>> /\ i' = 2
    /\ UNCHANGED <<frames, energy, trim_offset, threshold, current_midi, note_start,
                   note_freqs, note_confs, note_energies, notes, section_keys, key_window>>
    /\ UNCHANGED <<midi_vars, job_vars, key_vars>>

\* The early return, or merged = [notes[0]].
MergeCall ==
    /\ pc = "merge"
    /\ IF Len(notes) <= 1
       THEN pc' = "refine" /\ UNCHANGED <<out, i>>
       ELSE pc' = "merge_loop" /\ out' = <<notes[1]>> /\ i' = 2
    /\ UNCHANGED <<frames, energy, trim_offset, threshold, current_midi, note_start,
                   note_freqs, note_confs, note_energies, notes, section_keys, key_window>>
    /\ UNCHANGED <<midi_vars, job_vars, key_vars>>

\* One iteration of the loop over notes[1:].
MergeStep ==
    /\ pc = "merge_loop"
    /\ i <= Len(notes)
    /\ LET note == notes[i]
           prev == out[Len(out)]
       IN  IF MergeFuses(prev, note, NoteMergeMaxGap)
           THEN IF FusedRaises(prev, note)
                THEN pc' = "error" /\ UNCHANGED <<out, i>>
                ELSE /\ out' = [out EXCEPT ![Len(out)] = Fused(prev, note)]
                     /\ i' = i + 1
                     /\ pc' = pc
           ELSE /\ out' = Append(out, note)
                /\ i' = i + 1
                /\ pc' = pc
    /\ UNCHANGED <<frames, energy, trim_offset, threshold, current_midi, note_start,
                   note_freqs, note_confs, note_energies, notes, section_keys, key_window>>
    /\ UNCHANGED <<midi_vars, job_vars, key_vars>>

MergeReturn ==
    /\ pc = "merge_loop"
    /\ i > Len(notes)
    /\ notes' = out
    /\ pc' = "refine"
    /\ UNCHANGED <<frames, energy, trim_offset, threshold, i, current_midi, note_start,
                   note_freqs, note_confs, note_energies, out, section_keys, key_window>>
    /\ UNCHANGED <<midi_vars, job_vars, key_vars>>

-----------------------------------------------------------------------------
(* audio/note_segmenter.py: refine_onsets.                                 *)

\* np.diff(energy, prepend=energy[0]) at 0-based index k.
energy_diff(e, k) == IF k = 0 THEN 0 ELSE e[k + 1] - e[k]

\* int(round(note_time_raw / hop_seconds)) clamped to [0, len(energy) - 1].
FrameIdx(note, e, time_offset, hop) ==
    LET note_time_raw == note.start_time - time_offset
        rounded == IF note_time_raw <= 0 THEN 0 ELSE RoundDiv(note_time_raw, hop)
    IN  Max(0, Min(rounded, Len(e) - 1))

\* search_start + np.argmax(energy_diff[search_start:search_end]): the first
\* index of the window holding its maximum.
OnsetFrame(note, e, time_offset, lookback_frames, hop) ==
    LET frame_idx == FrameIdx(note, e, time_offset, hop)
        search_start == Max(0, frame_idx - lookback_frames)
        window == search_start..frame_idx
    IN  CHOOSE k \in window :
            /\ \A j \in window : energy_diff(e, j) <= energy_diff(e, k)
            /\ \A j \in window : j < k => energy_diff(e, j) < energy_diff(e, k)

\* NewStart without the time offset added back.
NewStartNoOffset(note, idx, refined, e, time_offset, lookback_frames, hop) ==
    LET onset == <<OnsetFrame(note, e, time_offset, lookback_frames, hop) * hop, 0>>
    IN  IF idx > 0 /\ refined # <<>>
             /\ FloatLess(onset, end_time_float(refined[Len(refined)]))
        THEN end_time_float(refined[Len(refined)])
        ELSE onset

\* new_start, a float: round(onset_frame * hop_seconds + time_offset, 4), or
\* the end_time of the previous refined note when that is greater.
NewStart(note, idx, refined, e, time_offset, lookback_frames, hop) ==
    LET onset == <<OnsetFrame(note, e, time_offset, lookback_frames, hop) * hop + time_offset, 0>>
    IN  IF idx > 0 /\ refined # <<>>
             /\ FloatLess(onset, end_time_float(refined[Len(refined)]))
        THEN end_time_float(refined[Len(refined)])
        ELSE onset

\* new_duration left at the note's duration.
NewDurationKept(note, new_start) == note.duration

\* round(note.end_time - new_start, 4).
NewDuration(note, new_start) == end_time(note) - new_start[1]

\* Whether the refinement is accepted: new_start <= note.start_time and
\* new_duration > 0.
RefineAccepts(note, new_start) ==
    ~FloatLess(start_time_float(note), new_start) /\ NewDuration(note, new_start) > 0

Refined(note, new_start) ==
    IF RefineAccepts(note, new_start)
    THEN [Note(note.midi_number, new_start[1], NewDuration(note, new_start),
               note.frequency, note.confidence, note.energy)
          EXCEPT !.start_ulps = new_start[2]]
    ELSE note

RefinedRaises(note, new_start) ==
    /\ RefineAccepts(note, new_start)
    /\ NoteRaises(note.midi_number, new_start[1], NewDuration(note, new_start),
                  note.frequency, note.confidence, note.energy)

\* The early return, or refined = [].
RefineCall ==
    /\ pc = "refine"
    /\ IF Len(energy) = 0 \/ notes = <<>>
       THEN pc' = "short" /\ UNCHANGED <<out, i>>
       ELSE pc' = "refine_loop" /\ out' = <<>> /\ i' = 1
    /\ UNCHANGED <<frames, energy, trim_offset, threshold, current_midi, note_start,
                   note_freqs, note_confs, note_energies, notes, section_keys, key_window>>
    /\ UNCHANGED <<midi_vars, job_vars, key_vars>>

\* One iteration of the loop over the notes.
RefineStep ==
    /\ pc = "refine_loop"
    /\ i <= Len(notes)
    /\ LET note == notes[i]
           new_start == NewStart(note, i - 1, out, energy, trim_offset, OnsetLookbackFrames, Hop)
       IN  IF RefinedRaises(note, new_start)
           THEN pc' = "error" /\ UNCHANGED <<out, i>>
           ELSE /\ out' = Append(out, Refined(note, new_start))
                /\ i' = i + 1
                /\ pc' = pc
    /\ UNCHANGED <<frames, energy, trim_offset, threshold, current_midi, note_start,
                   note_freqs, note_confs, note_energies, notes, section_keys, key_window>>
    /\ UNCHANGED <<midi_vars, job_vars, key_vars>>

RefineReturn ==
    /\ pc = "refine_loop"
    /\ i > Len(notes)
    /\ notes' = out
    /\ pc' = "short"
    /\ UNCHANGED <<frames, energy, trim_offset, threshold, i, current_midi, note_start,
                   note_freqs, note_confs, note_energies, out, section_keys, key_window>>
    /\ UNCHANGED <<midi_vars, job_vars, key_vars>>

-----------------------------------------------------------------------------
(* audio/note_segmenter.py: filter_short_notes.                            *)

\* filter_short_notes keeping only the notes longer than min_duration.
filter_short_notes_strict(ns, min_duration) ==
    SelectSeq(ns, LAMBDA n : n.duration > min_duration)

filter_short_notes(ns, min_duration) ==
    SelectSeq(ns, LAMBDA n : n.duration >= min_duration)

FilterShort ==
    /\ pc = "short"
    /\ notes' = filter_short_notes(notes, PostMergeMinDuration)
    /\ pc' = "key"
    /\ UNCHANGED <<frames, energy, trim_offset, threshold, i, current_midi, note_start,
                   note_freqs, note_confs, note_energies, out, section_keys, key_window>>
    /\ UNCHANGED <<midi_vars, job_vars, key_vars>>

-----------------------------------------------------------------------------
(* Unsigned integers beyond 32 bits, for the products Pearson's            *)
(* correlation needs: little-endian sequences of digits in base BigBase,   *)
(* without leading zeros (zero is the empty sequence).                     *)

BigBase == 10000

RECURSIVE BigOfInt(_)
BigOfInt(n) == IF n = 0 THEN <<>> ELSE <<n % BigBase>> \o BigOfInt(n \div BigBase)

RECURSIVE BigAddC(_, _, _)
BigAddC(a, b, carry) ==
    IF a = <<>> /\ b = <<>> THEN BigOfInt(carry)
    ELSE LET x == IF a = <<>> THEN 0 ELSE Head(a)
             y == IF b = <<>> THEN 0 ELSE Head(b)
             t == x + y + carry
         IN  <<t % BigBase>> \o BigAddC(IF a = <<>> THEN a ELSE Tail(a),
                                        IF b = <<>> THEN b ELSE Tail(b), t \div BigBase)

\* b * d for a digit 0 <= d < BigBase.
RECURSIVE BigScaleC(_, _, _)
BigScaleC(b, d, carry) ==
    IF b = <<>> THEN BigOfInt(carry)
    ELSE LET t == Head(b) * d + carry
         IN  <<t % BigBase>> \o BigScaleC(Tail(b), d, t \div BigBase)

RECURSIVE BigMul(_, _)
BigMul(a, b) ==
    IF a = <<>> \/ b = <<>> THEN <<>>
    ELSE LET rest == BigMul(a, Tail(b))
             low == IF Head(b) = 0 THEN <<>> ELSE BigScaleC(a, Head(b), 0)
         IN  BigAddC(low, IF rest = <<>> THEN rest ELSE <<0>> \o rest, 0)

\* a < b.
RECURSIVE BigLess(_, _)
BigLess(a, b) ==
    IF Len(a) # Len(b) THEN Len(a) < Len(b)
    ELSE IF a = <<>> THEN FALSE
    ELSE IF a[Len(a)] # b[Len(b)] THEN a[Len(a)] < b[Len(b)]
    ELSE BigLess(SubSeq(a, 1, Len(a) - 1), SubSeq(b, 1, Len(b) - 1))

RECURSIVE Gcd(_, _)
Gcd(a, b) == IF b = 0 THEN a ELSE Gcd(b, a % b)

-----------------------------------------------------------------------------
(* audio/key_detector.py.                                                  *)

\* Krumhansl-Kessler profiles, in hundredths; index 1 is the tonic.
MAJOR_PROFILE == <<635, 223, 348, 233, 438, 409, 252, 519, 239, 366, 229, 288>>
MINOR_PROFILE == <<633, 268, 352, 538, 260, 353, 254, 475, 398, 269, 334, 317>>

_MAJOR_SCALE == {0, 2, 4, 5, 7, 9, 11}
_MINOR_SCALE == {0, 2, 3, 5, 7, 8, 10}

KeyWindowSeconds == 80000        \* KEY_WINDOW_SECONDS = 8.0 s
KeyOverlapSeconds == 40000       \* KEY_OVERLAP_SECONDS = 4.0 s
KeyOutlierMaxDuration == 1500    \* KEY_OUTLIER_MAX_DURATION = 0.15 s
KeyOutlierMaxConfidence == 650   \* KEY_OUTLIER_MAX_CONFIDENCE = 0.65
HistogramMinSum == 1000          \* histogram.sum() > 0.1
NoCorrelation == -20000          \* best_corr = -2.0: no candidate was accepted

\* The weight note n adds to its pitch class in window [w_start, w_end).
WindowWeight(n, w_start, w_end) ==
    IF n.start_time >= w_end \/ end_time(n) <= w_start THEN 0
    ELSE Max(0, Min(end_time(n), w_end) - Max(n.start_time, w_start))

RECURSIVE PcWeight(_, _, _, _, _)
PcWeight(ns, k, pitch_class, w_start, w_end) ==
    IF k = 0 THEN 0
    ELSE PcWeight(ns, k - 1, pitch_class, w_start, w_end)
         + (IF ns[k].midi_number % 12 = pitch_class
            THEN WindowWeight(ns[k], w_start, w_end) ELSE 0)

\* The duration-weighted pitch-class histogram of a window: entry k (from 1)
\* is the weight of pitch class k - 1.
Histogram(ns, w_start, w_end) ==
    LET w(pitch_class) == PcWeight(ns, Len(ns), pitch_class, w_start, w_end)
    IN  <<w(0), w(1), w(2), w(3), w(4), w(5), w(6), w(7), w(8), w(9), w(10), w(11)>>

\* Pearson's r is unchanged by scaling the histogram: the histogram divided by
\* the greatest common divisor of its entries.
Reduced(h) ==
    LET g == Gcd(Gcd(Gcd(Gcd(Gcd(h[1], h[2]), Gcd(h[3], h[4])), Gcd(Gcd(h[5], h[6]), Gcd(h[7], h[8]))),
                     Gcd(Gcd(h[9], h[10]), Gcd(h[11], h[12]))), 0)
        d(k) == h[k] \div g
    IN  IF g = 0 THEN h
        ELSE <<d(1), d(2), d(3), d(4), d(5), d(6), d(7), d(8), d(9), d(10), d(11), d(12)>>

\* 12 * sum(y*y) - sum(y)^2 of a 12-vector: 144 times its variance.
VarTerm(s) == 12 * SumSeq([k \in 1..12 |-> s[k] * s[k]]) - SumSeq(s) * SumSeq(s)

MajorVarTerm == VarTerm(MAJOR_PROFILE)
MinorVarTerm == VarTerm(MINOR_PROFILE)
ProfileVarTerm(mode) == IF mode = "major" THEN MajorVarTerm ELSE MinorVarTerm

\* 12 * sum(x*y) - sum(x) * sum(y): the numerator of r for histogram x and the
\* profile rotated so that its index 0 falls on the candidate tonic.
CovTerm(h, tonic, mode) ==
    LET prof == IF mode = "major" THEN MAJOR_PROFILE ELSE MINOR_PROFILE
        xy(k) == h[k + 1] * prof[((k - tonic) % 12) + 1]
        sxy == xy(0) + xy(1) + xy(2) + xy(3) + xy(4) + xy(5) + xy(6) + xy(7)
               + xy(8) + xy(9) + xy(10) + xy(11)
    IN  12 * sxy - SumSeq(h) * SumSeq(prof)

\* np.corrcoef yields NaN: the histogram is constant.
CorrIsNaN(h) == VarTerm(h) = 0

BigSquare(n) == BigMul(BigOfInt(Abs(n)), BigOfInt(Abs(n)))

\* a1 / sqrt(v1) > a2 / sqrt(v2), for v1, v2 > 0.
RatioGreater(a1, v1, a2, v2) ==
    IF v1 = v2 THEN a1 > a2
    ELSE IF a1 >= 0 /\ a2 < 0 THEN TRUE
    ELSE IF a1 < 0 /\ a2 >= 0 THEN FALSE
    ELSE IF a1 >= 0
         THEN BigLess(BigMul(BigSquare(a2), BigOfInt(v1)), BigMul(BigSquare(a1), BigOfInt(v2)))
         ELSE BigLess(BigMul(BigSquare(a1), BigOfInt(v2)), BigMul(BigSquare(a2), BigOfInt(v1)))

\* The 24 candidates <<tonic, mode>> in scan order: tonic ascending, major
\* before minor.
Candidates == [k \in 1..24 |-> <<(k - 1) \div 2, <<"major", "minor">>[((k - 1) % 2) + 1]>>]

\* corr > best_corr for candidate c against the best so far.
CorrGreater(h, c, best) ==
    RatioGreater(CovTerm(h, c[1], c[2]), ProfileVarTerm(c[2]),
                 CovTerm(h, best[1], best[2]), ProfileVarTerm(best[2]))

\* corr > best_corr as the build computes it.  np.corrcoef sums in an order
\* that the build of numpy chooses, so correlations that are equal as real
\* numbers need not come out as equal floats.  r is the index in Candidates of
\* the candidate whose float lies a rounding step above the floats of the
\* candidates equal to it, and 0 when equal correlations come out equal.
CorrGreaterRounded(h, c, best, r) ==
    \/ CorrGreater(h, c, best)
    \/ r # 0 /\ c = Candidates[r] /\ c # best /\ ~CorrGreater(h, best, c)

\* The scan with a candidate replacing the best when not smaller.
RECURSIVE BestAfterLastWins(_, _, _, _)
BestAfterLastWins(h, k, best, r) ==
    IF k > 24 THEN best
    ELSE IF ~CorrGreaterRounded(h, best, Candidates[k], r)
         THEN BestAfterLastWins(h, k + 1, Candidates[k], r)
    ELSE BestAfterLastWins(h, k + 1, best, r)

\* The candidate the scan ends with, from candidate k on with best held so far
\* (h not constant): a candidate replaces the best only when strictly greater.
RECURSIVE BestAfter(_, _, _, _)
BestAfter(h, k, best, r) ==
    IF k > 24 THEN best
    ELSE IF CorrGreaterRounded(h, Candidates[k], best, r)
         THEN BestAfter(h, k + 1, Candidates[k], r)
    ELSE BestAfter(h, k + 1, best, r)

\* The ways the rounding can fall that differ in the scan's result: equal
\* floats, or one of the later candidates equal to the best lifted above it.
RoundingChoices(histogram) ==
    LET h == Reduced(histogram)
        best == BestAfter(h, 2, Candidates[1], 0)
    IN  IF CorrIsNaN(h) THEN {0}
        ELSE {0} \cup {k \in 1..24 : Candidates[k] # best /\ ~CorrGreater(h, best, Candidates[k])}

\* r >= c / 10000, where r = a / sqrt(d), asq = a^2 * 10^8 and d the product of
\* the two variance terms.
CorrAtLeast(a, asq, d, c) ==
    IF a >= 0 /\ c <= 0 THEN TRUE
    ELSE IF a < 0 /\ c > 0 THEN FALSE
    ELSE IF a >= 0 THEN ~BigLess(asq, BigMul(BigOfInt(c * c), d))
    ELSE ~BigLess(BigMul(BigOfInt(c * c), d), asq)

\* round((r + 1) / 2, 4) on the 0.0001 grid: the greatest k in lo..hi with
\* (r + 1) / 2 >= (k - 0.5) / 10000, by bisection.
RECURSIVE NormalizedIn(_, _, _, _, _)
NormalizedIn(a, asq, d, lo, hi) ==
    IF lo = hi THEN lo
    ELSE LET mid == (lo + hi + 1) \div 2
         IN  IF CorrAtLeast(a, asq, d, 2 * mid - 1 - 10000)
             THEN NormalizedIn(a, asq, d, mid, hi)
             ELSE NormalizedIn(a, asq, d, lo, mid - 1)

Normalized(h, cand) ==
    LET a == CovTerm(h, cand[1], cand[2])
        asq == BigMul(BigSquare(a), BigOfInt(100000000))
        d == BigMul(BigOfInt(VarTerm(h)), BigOfInt(ProfileVarTerm(cand[2])))
    IN  NormalizedIn(a, asq, d, 0, 10000)

\* _find_best_key: <<tonic, mode, round(normalized, 4)>>.
_find_best_key(histogram, r) ==
    LET h == Reduced(histogram)
    IN  IF CorrIsNaN(h) THEN <<0, "major", (NoCorrelation + 10000) \div 2>>
        ELSE LET best == BestAfter(h, 2, Candidates[1], r)
             IN  <<best[1], best[2], Normalized(h, best)>>

\* The SectionKey of window [w_start, w_start + window).
Section(ns, w_start, window_seconds, r) ==
    LET song_end == end_time(ns[Len(ns)])
        key == _find_best_key(Histogram(ns, w_start, w_start + window_seconds), r)
    IN  [start_time |-> w_start, end_time |-> Min(w_start + window_seconds, song_end),
         tonic |-> key[1], mode |-> key[2], correlation |-> key[3]]

\* The sections from window w_start on; rs holds the rounding of each call of
\* _find_best_key still to be made.
RECURSIVE SectionsFrom(_, _, _, _, _)
SectionsFrom(ns, w_start, window_seconds, step, rs) ==
    IF ~(w_start < end_time(ns[Len(ns)])) THEN <<>>
    ELSE IF SumSeq(Histogram(ns, w_start, w_start + window_seconds)) > HistogramMinSum
         THEN <<Section(ns, w_start, window_seconds, Head(rs))>>
              \o SectionsFrom(ns, w_start + step, window_seconds, step, Tail(rs))
    ELSE SectionsFrom(ns, w_start + step, window_seconds, step, rs)

KeyStep(window_seconds, overlap_seconds) ==
    IF window_seconds - overlap_seconds <= 0 THEN window_seconds
    ELSE window_seconds - overlap_seconds

detect_section_keys(ns, window_seconds, overlap_seconds, rs) ==
    IF ns = <<>> THEN <<>>
    ELSE IF end_time(ns[Len(ns)]) - ns[1].start_time <= 0 THEN <<>>
    ELSE SectionsFrom(ns, ns[1].start_time, window_seconds,
                      KeyStep(window_seconds, overlap_seconds), rs)

\* The roundings of the calls of _find_best_key that detect_section_keys
\* makes, one entry per call.
RECURSIVE RoundingsFrom(_, _, _, _)
RoundingsFrom(ns, w_start, window_seconds, step) ==
    IF ~(w_start < end_time(ns[Len(ns)])) THEN {<<>>}
    ELSE IF SumSeq(Histogram(ns, w_start, w_start + window_seconds)) > HistogramMinSum
         THEN {<<r>> \o rs :
                  r \in RoundingChoices(Histogram(ns, w_start, w_start + window_seconds)),
                  rs \in RoundingsFrom(ns, w_start + step, window_seconds, step)}
    ELSE RoundingsFrom(ns, w_start + step, window_seconds, step)

Roundings(ns, window_seconds, overlap_seconds) ==
    IF ns = <<>> THEN {<<>>}
    ELSE IF end_time(ns[Len(ns)]) - ns[1].start_time <= 0 THEN {<<>>}
    ELSE RoundingsFrom(ns, ns[1].start_time, window_seconds,
                       KeyStep(window_seconds, overlap_seconds))

\* _build_extended_scale without the chromatic neighbours.
_build_extended_scale_diatonic(tonic, mode) ==
    LET base == IF mode = "major" THEN _MAJOR_SCALE ELSE _MINOR_SCALE
    IN  {(tonic + interval) % 12 : interval \in base}

_build_extended_scale(tonic, mode) ==
    LET base == IF mode = "major" THEN _MAJOR_SCALE ELSE _MINOR_SCALE
        diatonic == {(tonic + interval) % 12 : interval \in base}
    IN  diatonic \cup {(p - 1) % 12 : p \in diatonic} \cup {(p + 1) % 12 : p \in diatonic}

\* The index of the section filter_key_outliers picks for note n: the first
\* of the overlapping sections with the greatest correlation above -1.0; 0 when
\* there is none.
BestSection(n, sks) ==
    LET cands == {k \in 1..Len(sks) : n.start_time < sks[k].end_time /\ end_time(n) > sks[k].start_time /\ sks[k].correlation > -10000}
    IN  IF cands = {} THEN 0
        ELSE CHOOSE k \in cands :
                 /\ \A j \in cands : sks[j].correlation <= sks[k].correlation
                 /\ \A j \in cands : j < k => sks[j].correlation < sks[k].correlation

\* The triple condition under which filter_key_outliers removes note n.
IsOutlier(n, sks, max_duration, max_confidence) ==
    LET b == BestSection(n, sks)
    IN  /\ b # 0
        /\ (n.midi_number % 12) \notin _build_extended_scale(sks[b].tonic, sks[b].mode)
        /\ n.duration < max_duration
        /\ n.confidence < max_confidence

\* filter_key_outliers: <<filtered notes, section keys>>.
filter_key_outliers(ns, window_seconds, overlap_seconds, max_duration, max_confidence, rs) ==
    LET sks == detect_section_keys(ns, window_seconds, overlap_seconds, rs)
    IN  IF ns = <<>> THEN <<ns, <<>> >>
        ELSE IF sks = <<>> THEN <<ns, <<>> >>
        ELSE <<SelectSeq(ns, LAMBDA n : ~IsOutlier(n, sks, max_duration, max_confidence)), sks>>

FilterKey ==
    /\ pc = "key"
    /\ \E rs \in Roundings(notes, key_window[1], key_window[2]) :
           LET res == filter_key_outliers(notes, key_window[1], key_window[2],
                                          KeyOutlierMaxDuration, KeyOutlierMaxConfidence, rs)
           IN  notes' = res[1] /\ section_keys' = res[2] /\ rounding' = rs
    /\ pc' = "done"
    /\ UNCHANGED <<frames, energy, trim_offset, threshold, i, current_midi, note_start,
                   note_freqs, note_confs, note_energies, out, key_window>>
    /\ UNCHANGED <<midi_vars, job_vars>>

-----------------------------------------------------------------------------
(* audio/midi_generator.py: generate_midi.                                 *)
(*                                                                         *)
(* An event time is a float <<x, u>>: Note.start_time, or Note.end_time,    *)
(* the float sum start_time + duration.                                    *)

TicksPerBeat == 480              \* ticks_per_beat
Tempo == 120                     \* tempo, in beats per minute
TempoMicroseconds == 500000      \* mido.bpm2tempo(120)
UnitsPerSecond == 10000          \* time units of the model in one second

\* The two events of every note, in the order of the notes.
RECURSIVE Events(_)
Events(ns) ==
    IF ns = <<>> THEN <<>>
    ELSE LET note == Head(ns)
         IN  <<[time |-> start_time_float(note), type |-> "note_on",
                note |-> note.midi_number, velocity |-> note.velocity],
               [time |-> end_time_float(note), type |-> "note_off",
                note |-> note.midi_number, velocity |-> 0]>> \o Events(Tail(ns))

\* The sort key (x["time"], x["type"] == "note_on") of a is below that of b.
KeyLess(a, b) ==
    \/ FloatLess(a.time, b.time)
    \/ a.time = b.time /\ a.type # "note_on" /\ b.type = "note_on"

\* list.sort is stable: an event goes after the events before it in the list
\* whose key is not above its own.
RECURSIVE InsertEvent(_, _)
InsertEvent(e, sorted) ==
    IF sorted = <<>> THEN <<e>>
    ELSE IF KeyLess(e, Head(sorted)) THEN <<e>> \o sorted
    ELSE <<Head(sorted)>> \o InsertEvent(e, Tail(sorted))

RECURSIVE SortedPrefix(_, _)
SortedPrefix(evs, k) ==
    IF k = 0 THEN <<>> ELSE InsertEvent(evs[k], SortedPrefix(evs, k - 1))

\* ticks_per_beat * (tempo / 60.0)
ticks_per_second == (TicksPerBeat * Tempo) \div 60

\* The times of the table above whose float product with ticks_per_second
\* falls below the whole number the exact product is.
TickShort == {<<20500, 0>>, <<21000, -1>>, <<22000, -1>>, <<23500, -1>>}

\* int(event["time"] * ticks_per_second): the float product cut to a whole
\* number.  An exact product that is not whole is at least 1/125 away from
\* one, beyond the reach of the float's rounding.
absolute_tick(time) ==
    LET q == (time[1] * ticks_per_second) \div UnitsPerSecond
    IN  IF (time[1] * ticks_per_second) % UnitsPerSecond = 0 /\ time \in TickShort
        THEN q - 1 ELSE q

\* generate_midi up to the first iteration of its loop over the events.
MidiCall ==
    /\ pc = "midi"
    /\ events' = SortedPrefix(Events(notes), Len(Events(notes)))
    /\ track' = <<[type |-> "set_tempo", tempo |-> TempoMicroseconds, time |-> 0]>>
    /\ last_tick' = 0
    /\ i' = 1
    /\ pc' = "midi_loop"
    /\ UNCHANGED <<frames, energy, trim_offset, threshold, current_midi, note_start,
                   note_freqs, note_confs, note_energies, notes, out, section_keys,
                   key_window, job_vars, key_vars>>

\* One iteration of the loop over the events.
MidiEvent ==
    /\ pc = "midi_loop"
    /\ i <= Len(events)
    /\ LET event == events[i]
           tick == absolute_tick(event.time)
           delta_tick == Max(0, tick - last_tick)
       IN  /\ track' = Append(track, [type |-> event.type, note |-> event.note,
                                      velocity |-> event.velocity, time |-> delta_tick])
           /\ last_tick' = tick
    /\ i' = i + 1
    /\ UNCHANGED <<pc, events, frames, energy, trim_offset, threshold, current_midi,
                   note_start, note_freqs, note_confs, note_energies, notes, out,
                   section_keys, key_window, job_vars, key_vars>>

\* After the loop: the file is saved.
MidiSave ==
    /\ pc = "midi_loop"
    /\ i > Len(events)
    /\ pc' = "saved"
    /\ UNCHANGED <<events, track, last_tick, i, frames, energy, trim_offset, threshold,
                   current_midi, note_start, note_freqs, note_confs, note_energies,
                   notes, out, section_keys, key_window, job_vars, key_vars>>

-----------------------------------------------------------------------------
(* A stage's Note(...) call and process_audio_job's handling of its error. *)

\* Every rest variable of the pipeline and of generate_midi.
stage_vars == <<frames, energy, trim_offset, threshold, i, current_midi, note_start,
                note_freqs, note_confs, note_energies, out, section_keys, key_window>>

\* notes.append(Note(...)): the stages call the constructor outside any try, so
\* its ValueError leaves the stage and _stage_segment.
NoteCall ==
    /\ pc = "note"
    /\ IF NoteRaises(call.midi_number, call.start_time, call.duration, call.frequency,
                     call.confidence, call.energy)
       THEN pc' = "error" /\ notes' = notes
       ELSE /\ pc' = "noted"
            /\ notes' = Append(notes, Note(call.midi_number, call.start_time, call.duration,
                                           call.frequency, call.confidence, call.energy))
    /\ UNCHANGED <<stage_vars, midi_vars, job_vars, key_vars>>

\* get_job returns None: the store holds no row of the job.
NoJob == <<>>

\* update_job_status (status, progress and the keyword columns, in one
\* commit) without the loop over the keyword columns.
update_job_status_only(row, status, progress, kwargs) ==
    IF row = NoJob THEN NoJob
    ELSE [row EXCEPT !.status = status,
                     !.progress = IF progress = NoProgress THEN @ ELSE progress]

\* update_job_status: the row it commits.  started_at, completed_at and
\* processing_time are not held.
update_job_status(row, status, progress, kwargs) ==
    IF row = NoJob THEN NoJob
    ELSE LET set == [row EXCEPT !.status = status,
                                !.progress = IF progress = NoProgress THEN @ ELSE progress]
         IN  [c \in DOMAIN row |-> IF c \in DOMAIN kwargs THEN kwargs[c] ELSE set[c]]

\* complete_job; result stands for result_data, midi_file_path,
\* json_file_path, notes_detected and audio_duration.
complete_job(row) ==
    update_job_status(row, "completed", 100, [result |-> TRUE])

fail_job(row, error_message) ==
    update_job_status(row, "failed", NoProgress, [error_message |-> error_message])

\* process_audio_job's except clause: fail_job, in a session of its own.
\* Nothing catches an exception of fail_job: it leaves the task, and the row
\* stays as the last commit left it.
FailJob ==
    /\ pc = "error"
    /\ \E raised \in BOOLEAN :
           IF raised THEN pc' = "raised" /\ job' = job
           ELSE pc' = "failed" /\ job' = fail_job(job, exc)
    /\ UNCHANGED <<stage_vars, midi_vars, key_vars, notes, call, exc, attempt, posts, waits, api>>

-----------------------------------------------------------------------------
(* workers/audio_worker.py: process_audio_job and _send_webhook, and        *)
(* api/v1/jobs.py: get_job_result.  A stage's own work is modelled above;  *)
(* here a stage returns or raises, and so does a call of the store.        *)

\* The statement after statement p of process_audio_job's try block.
NextStep(p) ==
    CASE p = "get_job" -> "progress_10"
      [] p = "progress_10" -> "load"
      [] p = "load" -> "progress_30"
      [] p = "progress_30" -> "detect"
      [] p = "detect" -> "progress_60"
      [] p = "progress_60" -> "segment_stage"
      [] p = "segment_stage" -> "progress_90"
      [] p = "progress_90" -> "output"
      [] p = "output" -> "complete"

\* job = await get_job(session, job_id); if not job: return.
GetJob ==
    /\ pc = "get_job"
    /\ \E raised \in BOOLEAN :
           pc' = IF raised THEN "error"
                 ELSE IF job = NoJob THEN "returned"
                 ELSE NextStep(pc)
    /\ UNCHANGED <<stage_vars, midi_vars, key_vars, job_vars, notes>>

\* await update_job_status(session, job_id, JobStatus.PROCESSING, progress=n).
UpdateProgress ==
    /\ \E n \in {10, 30, 60, 90} :
           /\ pc = <<"progress_10", "progress_30", "progress_60", "progress_90">>[n \div 30 + 1]
           /\ \E raised \in BOOLEAN :
                  IF raised THEN pc' = "error" /\ job' = job
                  ELSE /\ job' = update_job_status(job, "processing", n, <<>>)
                       /\ pc' = NextStep(pc)
    /\ UNCHANGED <<stage_vars, midi_vars, key_vars, notes, call, exc, attempt, posts, waits, api>>

\* await asyncio.to_thread(_stage_load / _stage_detect / _stage_segment /
\* _stage_output, ...).
RunStage ==
    /\ pc \in {"load", "detect", "segment_stage", "output"}
    /\ \E raised \in BOOLEAN : pc' = IF raised THEN "error" ELSE NextStep(pc)
    /\ UNCHANGED <<stage_vars, midi_vars, key_vars, job_vars, notes>>

\* await complete_job(...); if job.webhook_url: await _send_webhook(...).
CompleteJob ==
    /\ pc = "complete"
    /\ \E raised \in BOOLEAN :
           IF raised THEN pc' = "error" /\ job' = job
           ELSE /\ job' = complete_job(job)
                /\ pc' = IF job.webhook_url THEN "post" ELSE "returned"
    /\ UNCHANGED <<stage_vars, midi_vars, key_vars, notes, call, exc, attempt, posts, waits, api>>

\* Where _send_webhook goes after a POST, with no except clause around it.
AfterPostUncaught(outcome) ==
    CASE outcome = "ok" -> "sent"
      [] outcome = "status" -> "sleep"
      [] outcome = "raise" -> "error"

\* Where _send_webhook goes after a POST: to the commit of webhook_sent when
\* the status is below 300, to the sleep when it is not or when the POST
\* raised (a timeout included), which except Exception: pass swallows.
AfterPost(outcome) ==
    CASE outcome = "ok" -> "sent"
      [] outcome = "status" -> "sleep"
      [] outcome = "raise" -> "sleep"

\* response = await client.post(webhook_url, json=payload, headers=headers).
WebhookPost ==
    /\ pc = "post"
    /\ \E outcome \in {"ok", "status", "raise"} :
           /\ posts' = Append(posts, outcome)
           /\ pc' = AfterPost(outcome)
    /\ UNCHANGED <<stage_vars, midi_vars, key_vars, notes, call, job, exc, attempt, waits, api>>

\* job = await get_job(session, job_id); job.webhook_sent = 1; await
\* session.commit(); return.  An exception of the two store calls is swallowed
\* by the same except clause.
WebhookCommit ==
    /\ pc = "sent"
    /\ \E raised \in BOOLEAN :
           IF raised THEN pc' = "sleep" /\ job' = job
           ELSE /\ job' = IF job = NoJob THEN job ELSE [job EXCEPT !.webhook_sent = 1]
                /\ pc' = "returned"
    /\ UNCHANGED <<stage_vars, midi_vars, key_vars, notes, call, exc, attempt, posts, waits, api>>

\* await asyncio.sleep(2 ** attempt), and the loop's next attempt or its end.
WebhookSleep ==
    /\ pc = "sleep"
    /\ waits' = Append(waits, 2^attempt)
    /\ attempt' = attempt + 1
    /\ pc' = IF attempt + 1 < WebhookMaxRetries THEN "post" ELSE "returned"
    /\ UNCHANGED <<stage_vars, midi_vars, key_vars, notes, call, job, exc, posts, api>>

\* GET /jobs/{job_id}/result, in a session of its own.
GetJobResult ==
    /\ api' = IF job = NoJob THEN [code |-> 404, result |-> FALSE]
              ELSE IF job.status # "completed" THEN [code |-> 400, result |-> FALSE]
              ELSE [code |-> 200, result |-> job.result]
    /\ UNCHANGED <<pc, stage_vars, midi_vars, key_vars, notes, call, job, exc, attempt,
                   posts, waits>>

-----------------------------------------------------------------------------
(* The run of _stage_segment on one input.                                 *)

\* The variables of segment_notes' loop before it runs.
IdleSegmenter ==
    /\ threshold = 0
    /\ i = 0
    /\ current_midi = NoMidi
    /\ note_start = 0
    /\ note_freqs = <<>>
    /\ note_confs = <<>>
    /\ note_energies = <<>>
    /\ out = <<>>
    /\ section_keys = <<>>

\* _find_best_key has not been called.
NoKeyCall == rounding = <<>>

\* generate_midi has not run.
NoMidiFile ==
    /\ events = <<>>
    /\ track = <<>>
    /\ last_tick = 0

\* The row of a job whose _stage_segment is running, and no webhook or
\* request yet.
JobProcessing ==
    /\ job = [status |-> "processing", progress |-> 60, result |-> FALSE,
              error_message |-> "", webhook_url |-> FALSE, webhook_sent |-> 0]
    /\ exc = "ValueError"
    /\ attempt = 0
    /\ posts = <<>>
    /\ waits = <<>>
    /\ api = <<>>
\* No Note(...) call on its own; process_audio_job has set the job's status to
\* processing before the stage.
JobRunning ==
    /\ call = <<>>
    /\ JobProcessing

\* The frames are runs of 1, 5 or 9 equal frames, a frame being the
\* detector's frequency and periodicity and the RMS energy of the same 10 ms
\* of audio: silence, a C4 or a C#4.  trim_offset is trim_indices[0] / sr,
\* whole hops (512 samples at 16 kHz) of librosa's trim.
Init ==
    /\ LET FrameKinds == { [frequency |-> 0, confidence |-> 0, energy |-> 0],
                           [frequency |-> 26163, confidence |-> 900, energy |-> 2000],
                           [frequency |-> 27718, confidence |-> 600, energy |-> 1000] }
       IN  \E n \in 0..MaxRuns : \E runs \in [1..n -> FrameKinds \X {1, 5, 9}] :
               /\ frames = PitchFrames(Expand(runs))
               /\ energy = EnergyOf(Expand(runs))
    /\ trim_offset \in {0, 960}
    /\ pc = "start"
    /\ notes = <<>>
    /\ key_window = <<KeyWindowSeconds, KeyOverlapSeconds>>
    /\ IdleSegmenter
    /\ NoMidiFile
    /\ NoKeyCall
    /\ JobRunning

Next ==
    \/ StageSegment
    \/ SegmentFrame
    \/ SegmentClose
    \/ MergeCall
    \/ MergeStep
    \/ MergeReturn
    \/ RefineCall
    \/ RefineStep
    \/ RefineReturn
    \/ FilterShort
    \/ FilterKey

Spec == Init /\ [][Next]_vars

-----------------------------------------------------------------------------
(* The stages as functions of note lists given directly.                   *)

\* A note list from shapes <<kind, gap>>: each note starts gap after the end of
\* the one before it (the first, gap after t0).
RECURSIVE BuildNotes(_, _)
BuildNotes(shapes, t0) ==
    IF shapes = <<>> THEN <<>>
    ELSE LET k == Head(shapes)[1]
             n == Note(k.midi_number, t0 + Head(shapes)[2], k.duration, k.frequency,
                       k.confidence, k.energy)
         IN  <<n>> \o BuildNotes(Tail(shapes), end_time(n))

ShapeSeqs(kinds, gaps, max) == UNION {[1..n -> kinds \X gaps] : n \in 0..max}

\* merge_same_pitch_notes on start-sorted lists, overlapping ones included.
MaxMergeNotes == 3

InitMerge ==
    /\ LET MergeKinds ==
               { [midi_number |-> 60, duration |-> 500, frequency |-> 26163, confidence |-> 900, energy |-> 2000],
                 [midi_number |-> 60, duration |-> 1000, frequency |-> 26000, confidence |-> 600, energy |-> NoEnergy],
                 [midi_number |-> 61, duration |-> 500, frequency |-> 27718, confidence |-> 600, energy |-> 1000] }
       IN  \E shapes \in ShapeSeqs(MergeKinds, {-100, 0, 800, 900}, MaxMergeNotes) :
               notes = BuildNotes(shapes, 100)
    /\ frames = <<>>
    /\ energy = <<>>
    /\ trim_offset = 0
    /\ pc = "merge"
    /\ key_window = <<KeyWindowSeconds, KeyOverlapSeconds>>
    /\ IdleSegmenter
    /\ NoMidiFile
    /\ NoKeyCall
    /\ JobRunning

NextMerge == MergeCall \/ MergeStep \/ MergeReturn

SpecMerge == InitMerge /\ [][NextMerge]_vars

\* refine_onsets on any energy array and time offset.
MaxRefineNotes == 2
MaxEnergyLen == 3

InitRefine ==
    /\ trim_offset \in {0, 960}
    /\ LET RefineKinds ==
               { [midi_number |-> 60, duration |-> 500, frequency |-> 26163, confidence |-> 900, energy |-> 2000],
                 [midi_number |-> 61, duration |-> 600, frequency |-> 27718, confidence |-> 600, energy |-> 1000] }
       IN  \E shapes \in ShapeSeqs(RefineKinds, {0, 100, 900}, MaxRefineNotes) :
               notes = BuildNotes(shapes, trim_offset)
    /\ energy \in UNION {[1..n -> {0, 1000, 2000}] : n \in 1..MaxEnergyLen}
    /\ frames = <<>>
    /\ pc = "refine"
    /\ key_window = <<KeyWindowSeconds, KeyOverlapSeconds>>
    /\ IdleSegmenter
    /\ NoMidiFile
    /\ NoKeyCall
    /\ JobRunning

NextRefine == RefineCall \/ RefineStep \/ RefineReturn

SpecRefine == InitRefine /\ [][NextRefine]_vars

\* filter_key_outliers on note lists spanning several key windows.
MaxKeyNotes == 3
\* The window and overlap are the settings', or a window with an overlap as
\* long.

InitKey ==
    /\ LET KeyKinds ==
               { [midi_number |-> 60, duration |-> 10000, frequency |-> 26163, confidence |-> 900, energy |-> 2000],
                 [midi_number |-> 67, duration |-> 10000, frequency |-> 39200, confidence |-> 900, energy |-> 2000],
                 [midi_number |-> 61, duration |-> 800, frequency |-> 27718, confidence |-> 400, energy |-> 1000] }
       IN  \E shapes \in ShapeSeqs(KeyKinds, {0, 80000}, MaxKeyNotes) :
               notes = BuildNotes(shapes, 0)
    /\ frames = <<>>
    /\ energy = <<>>
    /\ trim_offset = 0
    /\ pc = "key"
    /\ key_window \in {<<KeyWindowSeconds, KeyOverlapSeconds>>, <<40000, 40000>>}
    /\ IdleSegmenter
    /\ NoMidiFile
    /\ NoKeyCall
    /\ JobRunning

SpecKey == InitKey /\ [][FilterKey]_vars

\* filter_key_outliers on chromatic runs: notes of one duration on consecutive
\* semitones, back to back from time 0.  Twelve of them inside one window give
\* every pitch class the same weight.
MaxChromaNotes == 12
ChromaNote(midi, duration) ==
    [midi_number |-> midi, duration |-> duration, frequency |-> HzLower[midi] + 100,
     confidence |-> 900, energy |-> 2000]
InitChroma ==
    /\ \E first \in {48, 55}, n \in 0..MaxChromaNotes, duration \in {2500, 5000} :
           notes = BuildNotes([k \in 1..n |-> <<ChromaNote(first + k - 1, duration), 0>>], 0)
    /\ frames = <<>>
    /\ energy = <<>>
    /\ trim_offset = 0
    /\ pc = "key"
    /\ key_window \in {<<KeyWindowSeconds, KeyOverlapSeconds>>, <<40000, 40000>>}
    /\ IdleSegmenter
    /\ NoMidiFile
    /\ NoKeyCall
    /\ JobRunning

SpecChroma == InitChroma /\ [][FilterKey]_vars

\* filter_key_outliers on interval cycles: notes of one duration a fixed
\* number of semitones apart, back to back from time 0.  A cycle that closes
\* within the octave (two tritones, three major thirds, ...) gives a histogram
\* that several tonics fit equally well.
MaxCycleNotes == 6
InitCycle ==
    /\ \E first \in {48, 53}, step \in {2, 3, 4, 6}, n \in 1..MaxCycleNotes,
          duration \in {2500, 5000} :
           notes = BuildNotes([k \in 1..n |-> <<ChromaNote(first + (k - 1) * step, duration), 0>>], 0)
    /\ frames = <<>>
    /\ energy = <<>>
    /\ trim_offset = 0
    /\ pc = "key"
    /\ key_window = <<KeyWindowSeconds, KeyOverlapSeconds>>
    /\ IdleSegmenter
    /\ NoMidiFile
    /\ NoKeyCall
    /\ JobRunning

SpecCycle == InitCycle /\ [][FilterKey]_vars

\* generate_midi on lists of notes of 0.05 or 0.06 s, back to back or 0.01 s
\* apart, the first one near 0 s or near 2 s.
MaxMidiNotes == 3

InitMidi ==
    /\ LET MidiKinds ==
               { [midi_number |-> 61, duration |-> 500, frequency |-> 27718, confidence |-> 600, energy |-> 1000],
                 [midi_number |-> 60, duration |-> 500, frequency |-> 26163, confidence |-> 900, energy |-> 2000],
                 [midi_number |-> 60, duration |-> 600, frequency |-> 26163, confidence |-> 900, energy |-> 2000] }
       IN  \E shapes \in ShapeSeqs(MidiKinds, {0, 100}, MaxMidiNotes), t0 \in {0, 100, 20000} :
               notes = BuildNotes(shapes, t0)
    /\ frames = <<>>
    /\ energy = <<>>
    /\ trim_offset = 0
    /\ pc = "midi"
    /\ key_window = <<KeyWindowSeconds, KeyOverlapSeconds>>
    /\ IdleSegmenter
    /\ NoMidiFile
    /\ NoKeyCall
    /\ JobRunning

NextMidi ==
    \/ MidiCall
    \/ MidiEvent
    \/ MidiSave

SpecMidi == InitMidi /\ [][NextMidi]_vars

\* Note(...) calls with arguments inside and outside the constructor's ranges.
NoteCalls ==
    [midi_number : {-1, 0, 60, 127, 128}, start_time : {0, 100},
     duration : {-100, 0, 1, 500}, frequency : {26163},
     confidence : {-1, 0, 900, 1000, 1001}, energy : {NoEnergy, 2000}]

InitNote ==
    /\ call \in NoteCalls
    /\ notes = <<>>
    /\ frames = <<>>
    /\ energy = <<>>
    /\ trim_offset = 0
    /\ pc = "note"
    /\ key_window = <<KeyWindowSeconds, KeyOverlapSeconds>>
    /\ IdleSegmenter
    /\ NoMidiFile
    /\ NoKeyCall
    /\ JobProcessing

NextNote ==
    \/ NoteCall
    \/ FailJob

SpecNote == InitNote /\ [][NextNote]_vars

\* segment_notes on frames at the edges of its pitch gates, with an energy
\* array chosen apart from the frames: none at all (energy=None, and the
\* default energy_threshold), or one whose threshold _stage_segment computes.
MaxGateRuns == 2
DefaultEnergyThreshold == 100    \* energy_threshold = 0.01
GateRunSeqs ==
    LET EdgeFreq == [frequency |-> MinFreq, confidence |-> 900]
        EdgeConf == [frequency |-> 26163, confidence |-> ConfidenceThreshold]
        LowConf == [frequency |-> 26163, confidence |-> ConfidenceThreshold - 1]
        GateKinds == {[frequency |-> 0, confidence |-> 0], EdgeFreq, EdgeConf, LowConf}
        GateLens == {1, 6}
    IN  UNION {[1..n -> GateKinds \X GateLens] : n \in 1..MaxGateRuns}

\* Energy arrays for n frames: none, silent, loud, at the floor of the
\* threshold, silent and ending halfway through the frames, silent then loud.
GateEnergies(n) ==
    { <<>>,
      [k \in 1..n |-> 0],
      [k \in 1..n |-> 2000],
      [k \in 1..n |-> ThresholdFloor],
      [k \in 1..((n + 1) \div 2) |-> 0],
      [k \in 1..n |-> IF 2 * k <= n THEN 0 ELSE 2000] }

InitGate ==
    /\ \E runs \in GateRunSeqs : frames = PitchFrames(Expand(runs))
    /\ energy \in GateEnergies(Len(frames))
    /\ trim_offset = 0
    /\ notes = <<>>
    /\ key_window = <<KeyWindowSeconds, KeyOverlapSeconds>>
    /\ IF energy = <<>>
       THEN /\ pc = "segment"
            /\ threshold = DefaultEnergyThreshold * ThrScale
            /\ i = 1
       ELSE /\ pc = "start"
            /\ threshold = 0
            /\ i = 0
    /\ current_midi = NoMidi
    /\ note_start = 0
    /\ note_freqs = <<>>
    /\ note_confs = <<>>
    /\ note_energies = <<>>
    /\ out = <<>>
    /\ section_keys = <<>>
    /\ NoMidiFile
    /\ NoKeyCall
    /\ JobRunning

NextGate ==
    \/ StageSegment
    \/ SegmentFrame
    \/ SegmentClose

SpecGate == InitGate /\ [][NextGate]_vars

\* post_process_pitch on frames of two tones, silence and a tone at the edge
\* of the voicing confidence, and again on its own output.
InitPitch ==
    /\ LET PitchKinds ==
               { [frequency |-> 0, confidence |-> 0],
                 [frequency |-> 22000, confidence |-> 900],
                 [frequency |-> 44000, confidence |-> 900],
                 [frequency |-> 33000, confidence |-> MinVoicedConfidence] }
       IN  \E n \in 0..MaxPitchFrames : \E kinds \in [1..n -> PitchKinds] :
               frames = PitchFrames(kinds)
    /\ energy = <<>>
    /\ trim_offset = 0
    /\ pc = "post_process"
    /\ notes = <<>>
    /\ key_window = <<KeyWindowSeconds, KeyOverlapSeconds>>
    /\ IdleSegmenter
    /\ NoMidiFile
    /\ NoKeyCall
    /\ JobRunning

SpecPitch == InitPitch /\ [][PostProcess]_vars

\* process_audio_job on a job as create_audio_job commits it, with or
\* without a webhook, or on an id the store does not hold; requests for the
\* result arrive at any time.
InitJob ==
    /\ job \in {NoJob} \cup
                [status : {"pending"}, progress : {0}, result : {FALSE},
                 error_message : {""}, webhook_url : BOOLEAN, webhook_sent : {0}]
    /\ exc \in {"ValueError", "OperationalError"}
    /\ attempt = 0
    /\ posts = <<>>
    /\ waits = <<>>
    /\ api = <<>>
    /\ call = <<>>
    /\ pc = "get_job"
    /\ notes = <<>>
    /\ frames = <<>>
    /\ energy = <<>>
    /\ trim_offset = 0
    /\ key_window = <<KeyWindowSeconds, KeyOverlapSeconds>>
    /\ IdleSegmenter
    /\ NoMidiFile
    /\ NoKeyCall

\* The steps of the worker's task.
Worker ==
    \/ GetJob
    \/ UpdateProgress
    \/ RunStage
    \/ CompleteJob
    \/ WebhookPost
    \/ WebhookCommit
    \/ WebhookSleep
    \/ FailJob

NextJob ==
    \/ Worker
    \/ GetJobResult

SpecJob == InitJob /\ [][NextJob]_vars

\* The event loop resumes the worker's task whenever it can run.
SpecJobFair == SpecJob /\ WF_vars(Worker)

-----------------------------------------------------------------------------
(* Properties of segment_notes.                                            *)

FrameMidi(k) == hz_to_midi(frames[k].frequency)

\* Frames a..b are valid and round to one MIDI number.
SameRun(a, b) == \A k \in a..b : is_valid(k) /\ FrameMidi(k) = FrameMidi(a)

RunStartsAt(a) == a = 1 \/ ~is_valid(a - 1) \/ FrameMidi(a - 1) # FrameMidi(a)

RunEndsAt(b) == b = Len(frames) \/ ~is_valid(b + 1) \/ FrameMidi(b + 1) # FrameMidi(b)

\* Note n is the maximal run a..b: it starts at frame a's time and ends at the
\* time of the frame that closed it (one hop after the last frame at the end of
\* the input).
NoteCoversRun(n, a, b) ==
    /\ SameRun(a, b) /\ RunStartsAt(a) /\ RunEndsAt(b)
    /\ n.midi_number = FrameMidi(a)
    /\ n.start_time = frames[a].time + trim_offset
    /\ end_time(n) = trim_offset + (IF b = Len(frames) THEN frames[b].time + Hop
                                    ELSE frames[b + 1].time)

\* The index of the frame at or last before time t (frame k is at (k - 1) hops).
FrameAt(t) == t \div Hop + 1

\* Note n covers the maximal run from the frame at its start to the last frame
\* before its end, all of them among frames 1..last.
CoversRunWithin(n, last) ==
    LET a == FrameAt(n.start_time - trim_offset)
        b == FrameAt(end_time(n) - trim_offset) - 1
    IN  1 <= a /\ a <= b /\ b <= last /\ NoteCoversRun(n, a, b)

\* C1: while segment_notes reads the frames in order, a note is open exactly
\* when the last frame read was valid, and the open note began at the first
\* frame of the run of valid equal-MIDI frames that reaches the last frame
\* read; every emitted note covers one maximal run of consecutive valid
\* equal-MIDI frames and ends at the time of the frame that closed it, so no
\* emitted note spans an invalid frame or two MIDI numbers.
SegmentKeepsRuns ==
    /\ pc = "segment" =>
         /\ (current_midi # NoMidi) <=> (i > 1 /\ is_valid(i - 1))
         /\ current_midi # NoMidi =>
              LET a == FrameAt(note_start)
              IN  /\ 1 <= a /\ a <= i - 1
                  /\ SameRun(a, i - 1) /\ RunStartsAt(a)
                  /\ current_midi = FrameMidi(a)
                  /\ note_start = frames[a].time
                  /\ Len(note_freqs) = i - a
         /\ \A x \in 1..Len(notes) : CoversRunWithin(notes[x], i - 2)
    /\ pc = "merge" => \A x \in 1..Len(notes) : CoversRunWithin(notes[x], Len(frames))

\* A frame of another MIDI number closed a note and opened the next one at the
\* closed note's end.
PitchChangeClosedNote ==
    /\ pc = "segment"
    /\ notes # <<>>
    /\ current_midi # NoMidi
    /\ notes[Len(notes)].midi_number # current_midi
    /\ end_time(notes[Len(notes)]) = note_start + trim_offset

\* C13 (as stated): segment_notes returns only notes of at least 0.05 s, and
\* every maximal run of valid equal-MIDI frames lasting at least 0.05 s (from
\* its first frame to the frame that closes it) yields exactly one note, since
\* _maybe_add_note drops a candidate only if it is shorter than min_duration
\* or its buffers are empty.
SegmentEmitsEveryLongRun ==
    pc = "merge" =>
        /\ \A x \in 1..Len(notes) : notes[x].duration >= MinNoteDuration
        /\ \A a \in 1..Len(frames) : \A b \in a..Len(frames) :
               (/\ RunStartsAt(a) /\ RunEndsAt(b) /\ SameRun(a, b)
                /\ (b - a + 1) * Hop >= MinNoteDuration)
                   => Cardinality({x \in 1..Len(notes) : NoteCoversRun(notes[x], a, b)}) = 1

-----------------------------------------------------------------------------
(* Properties of the note list along the pipeline.                         *)

Pairs(ns) == 1..(Len(ns) - 1)

\* Consecutive notes of equal MIDI number are more than max_gap apart.
SamePitchApart(ns) ==
    \A k \in Pairs(ns) :
        ns[k + 1].midi_number = ns[k].midi_number
            => ns[k + 1].start_time - end_time(ns[k]) > NoteMergeMaxGap

\* C2 (as stated): in the pipeline's final output, consecutive notes of equal
\* MIDI number are more than 0.08 s apart.
FinalSamePitchApart == pc = "done" => SamePitchApart(notes)

\* C2 (amended): in the list merge_same_pitch_notes returns within the
\* pipeline, consecutive notes of equal MIDI number are more than 0.08 s apart.
MergedSamePitchApart == pc = "refine" => SamePitchApart(notes)

\* merge_same_pitch_notes returned two consecutive notes of one MIDI number.
MergeKeptSamePitchPair ==
    /\ pc = "refine"
    /\ \E k \in Pairs(notes) : notes[k + 1].midi_number = notes[k].midi_number

NoOverlap(ns) ==
    \A k \in Pairs(ns) : ~FloatLess(start_time_float(ns[k + 1]), end_time_float(ns[k]))

\* C5: when the list given to refine_onsets has no overlaps, the notes it has
\* refined so far have none either, and the pipeline's final output has none:
\* each note starts at or after the end of the one before it, the end being
\* the float Note.end_time computes.
RefinedNoOverlap ==
    /\ pc = "refine_loop" /\ NoOverlap(notes) => NoOverlap(out)
    /\ pc = "done" => NoOverlap(notes)

\* C8: the notes of the pipeline's final output are strictly ordered by
\* start_time.
FinalStrictlyOrdered ==
    pc = "done" => \A k \in Pairs(notes) : notes[k].start_time < notes[k + 1].start_time

FinalHasTwoNotes == pc = "done" /\ Len(notes) >= 2

\* after holds exactly the notes of before at the indices in kept, unchanged
\* and in order.
KeepsExactly(before, after, kept) ==
    /\ Len(after) = Cardinality(kept)
    /\ \A k \in kept : after[Cardinality({x \in kept : x <= k})] = before[k]

NotesInRange(ns) ==
    \A k \in 1..Len(ns) :
        /\ 0 <= ns[k].start_time
        /\ ns[k].start_time < ns[k].start_time + ns[k].duration
        /\ 0 <= ns[k].midi_number /\ ns[k].midi_number <= 127
        /\ 0 <= ns[k].confidence /\ ns[k].confidence <= 1000
        /\ 0 <= ns[k].velocity /\ ns[k].velocity <= 127
        /\ ns[k].duration >= PostMergeMinDuration

\* C9: every note of the pipeline's final output has 0 <= start_time <
\* start_time + duration, a MIDI number and a velocity in 0..127, a confidence
\* in [0, 1] and a duration of at least 0.06 s; and filter_short_notes drops
\* exactly the notes with duration < min_duration, keeping the others unchanged
\* and in order.
FinalNotesInRange ==
    [][/\ pc' = "done" => NotesInRange(notes')
       /\ (pc = "short" /\ pc' = "key") =>
              KeepsExactly(notes, notes',
                           {k \in 1..Len(notes) : ~(notes[k].duration < PostMergeMinDuration)})]_vars

\* filter_short_notes dropped a note and kept one of exactly min_duration.
ShortDroppedBoundaryKept ==
    /\ pc = "key"
    /\ Len(out) > Len(notes)
    /\ \E k \in 1..Len(notes) : notes[k].duration = PostMergeMinDuration

\* C10: with T seconds of leading silence trimmed, every note of the
\* pipeline's final output starts at or after T - 0.05 s.
FinalStartAfterTrim ==
    pc = "done" => \A k \in 1..Len(notes) :
                       notes[k].start_time >= trim_offset - OnsetLookbackFrames * Hop

\* Leading silence beyond the lookback was trimmed and the output has a note
\* starting within the lookback after T.
TrimmedNoteNearStart ==
    /\ pc = "done"
    /\ trim_offset > OnsetLookbackFrames * Hop
    /\ \E k \in 1..Len(notes) : notes[k].start_time < trim_offset + OnsetLookbackFrames * Hop

\* The stage that follows the return of the stage at position p.
StageAfter(p) ==
    CASE p = "merge" -> "refine"
      [] p = "refine" -> "short"
      [] p = "short" -> "key"
      [] p = "key" -> "done"

\* C17: an empty frame list gives an empty note list; merge_same_pitch_notes,
\* refine_onsets, filter_short_notes and filter_key_outliers each return the
\* empty list on the empty list, at once and without error, the last with no
\* section; so a run that detects no notes ends with an empty note list and
\* an empty section list.
EmptyFlowsThrough ==
    [][/\ (frames = <<>> /\ pc = "segment") => (pc' = "merge" /\ notes' = <<>>)
       /\ (notes = <<>> /\ pc \in {"merge", "refine", "short", "key"}) =>
             /\ pc' = StageAfter(pc)
             /\ notes' = <<>>
             /\ section_keys' = <<>>]_vars

\* The run on an empty frame list has ended.
EmptyFrameListDone ==
    /\ pc = "done"
    /\ frames = <<>>
    /\ notes = <<>>
    /\ section_keys = <<>>

-----------------------------------------------------------------------------
(* Properties of merge_same_pitch_notes as a function.                     *)

\* C7: each step of merge_same_pitch_notes over a start-sorted list fuses the
\* current note into the last merged note if and only if both have the same
\* MIDI number and 0 <= cur.start_time - prev.end_time <= 0.08 s, the gap
\* being the float the code computes; the fused note keeps prev's start, has
\* duration prev.duration + gap + cur.duration (on the 0.0001 s grid of its
\* round(x, 4)) and so ends at cur's end, and it is again the last merged note
\* for the next step; otherwise the current note is appended unchanged.
MergeFusesIffClose ==
    [][(pc = "merge_loop" /\ i' = i + 1) =>
          LET cur == notes[i]
              prev == out[Len(out)]
              gap == FloatSub(start_time_float(cur), end_time_float(prev))
              last == out'[Len(out')]
          IN  IF /\ cur.midi_number = prev.midi_number
                 /\ ~FloatLess(gap, <<0, 0>>)
                 /\ ~FloatLess(<<NoteMergeMaxGap, 0>>, gap)
              THEN /\ Len(out') = Len(out)
                   /\ \A k \in 1..(Len(out) - 1) : out'[k] = out[k]
                   /\ last.midi_number = prev.midi_number
                   /\ start_time_float(last) = start_time_float(prev)
                   /\ last.duration = prev.duration + gap[1] + cur.duration
                   /\ end_time(last) = end_time(cur)
              ELSE out' = Append(out, cur)]_vars

\* Three notes were fused into one, the second exactly max_gap after the first.
ChainFused ==
    /\ pc = "merge_loop"
    /\ Len(notes) = 3 /\ i = 4 /\ Len(out) = 1
    /\ notes[2].start_time - end_time(notes[1]) = NoteMergeMaxGap

-----------------------------------------------------------------------------
(* Properties of refine_onsets as a function.                              *)

\* C6 (as stated): for every input note, non-empty energy array and time
\* offset, the start refine_onsets gives the note is at most the lookback
\* (lookback_frames hops, 0.05 s) before the note's start and never after it.
RefineBackDatesWithinLookback ==
    [][(pc = "refine_loop" /\ i' = i + 1) =>
          LET note == notes[i]
              refined == out'[Len(out')]
          IN  /\ note.start_time - OnsetLookbackFrames * Hop <= refined.start_time
              /\ refined.start_time <= note.start_time]_vars

-----------------------------------------------------------------------------
(* Properties of filter_key_outliers as a function.                        *)

\* The index of the highest-correlation section overlapping n, the first such
\* section on ties; 0 when no section overlaps n.
HighestCorrSection(n, sks) ==
    LET over == {k \in 1..Len(sks) : n.start_time < sks[k].end_time /\ end_time(n) > sks[k].start_time}
    IN  IF over = {} THEN 0
        ELSE CHOOSE k \in over :
                 \A j \in over : \/ sks[j].correlation < sks[k].correlation
                                 \/ (sks[j].correlation = sks[k].correlation /\ k <= j)

\* The pitch classes of the key's scale and their chromatic neighbours.
ExtendedScaleOf(tonic, mode) ==
    LET scale == IF mode = "major" THEN {0, 2, 4, 5, 7, 9, 11} ELSE {0, 2, 3, 5, 7, 8, 10}
    IN  {p \in 0..11 : \E q \in 0..11 : /\ (q - tonic) % 12 \in scale
                                        /\ p \in {q, (q + 1) % 12, (q + 11) % 12}}

\* C3 (as stated): filter_key_outliers removes a C# note (MIDI 61) of duration
\* 0.08 s and confidence 0.4 lying in a section whose best-correlated key is
\* C major.
OutlierInCMajorRemoved ==
    [][(pc = "key" /\ pc' = "done") =>
          \A k \in 1..Len(notes) :
              LET n == notes[k]
                  b == HighestCorrSection(n, section_keys')
              IN  (/\ n.midi_number = 61 /\ n.duration = 800 /\ n.confidence = 400
                   /\ b # 0 /\ section_keys'[b].tonic = 0 /\ section_keys'[b].mode = "major")
                      => \A j \in 1..Len(notes') : notes'[j] # n]_vars

\* The three conditions of the outlier rule hold for n.
TripleHolds(n, sks) ==
    LET b == HighestCorrSection(n, sks)
    IN  /\ b # 0
        /\ (n.midi_number % 12) \notin ExtendedScaleOf(sks[b].tonic, sks[b].mode)
        /\ n.duration < KeyOutlierMaxDuration
        /\ n.confidence < KeyOutlierMaxConfidence

\* C4: filter_key_outliers removes a note if and only if its pitch class is
\* not in the extended scale of the highest-correlation section overlapping it
\* (the first on ties), its duration is below 0.15 s and its confidence below
\* 0.65; a note overlapping no section is kept, and the kept notes are
\* unchanged and in their input order.
FilterKeyRemovesTriple ==
    [][(pc = "key" /\ pc' = "done") =>
          KeepsExactly(notes, notes',
                       {k \in 1..Len(notes) : ~TripleHolds(notes[k], section_keys')})]_vars

\* filter_key_outliers returned sections, a short low-confidence note lying in
\* one of them and a note overlapping none.
KeyFilterCoveredAndUncovered ==
    /\ pc = "done"
    /\ section_keys # <<>>
    /\ \E k \in 1..Len(notes) :
           /\ HighestCorrSection(notes[k], section_keys) # 0
           /\ notes[k].duration < KeyOutlierMaxDuration
           /\ notes[k].confidence < KeyOutlierMaxConfidence
    /\ \E k \in 1..Len(notes) : HighestCorrSection(notes[k], section_keys) = 0

-----------------------------------------------------------------------------
(* Properties of detect_section_keys and _find_best_key.                   *)

\* C11 (as stated): every SectionKey detect_section_keys returns has its
\* correlation in [0, 1], windows with a constant pitch-class histogram (all 24
\* candidate correlations NaN and skipped) included.
SectionCorrelationInUnitRange ==
    \A k \in 1..Len(section_keys) : section_keys[k].correlation \in 0..10000

\* C12 (as stated): the extended scale _build_extended_scale builds for the key
\* of a section has 10 or 11 of the 12 pitch classes, so filter_key_outliers
\* tests every note against a set that leaves at least one pitch class out.
ExtendedScaleLeavesOneOut ==
    \A k \in 1..Len(section_keys) :
        Cardinality(_build_extended_scale(section_keys[k].tonic, section_keys[k].mode))
            \in {10, 11}

-----------------------------------------------------------------------------
(* Properties of generate_midi.                                            *)

\* The absolute tick of the k-th note message of the track: the sum of the
\* delta times up to it.
TrackTick(k) == SumSeq([j \in 1..(k + 1) |-> track[j].time])

\* round(seconds * 960) for x * 0.0001 seconds.
RoundedTick(x) == RoundDiv(x * 960, 10000)

\* C14 (as stated): every message of the track lies at the absolute tick
\* round(seconds * 960) of its event's time, a note's start or end.
TicksAreRounded ==
    \A k \in 1..(Len(track) - 1) : TrackTick(k) = RoundedTick(events[k].time[1])

\* C15 (as stated): the messages are emitted in non-decreasing absolute-tick
\* order, no note_on is emitted before a note_off of the same absolute tick,
\* and each delta time is the non-negative difference between the message's
\* tick and that of the message emitted before it.
NoteOffFirstAtEqualTick ==
    \A k \in 1..(Len(track) - 1) :
        /\ track[k + 1].time >= 0
        /\ track[k + 1].time = absolute_tick(events[k].time)
                                 - (IF k = 1 THEN 0 ELSE absolute_tick(events[k - 1].time))
        /\ \A j \in 1..(k - 1) :
               /\ TrackTick(j) <= TrackTick(k)
               /\ ~(/\ TrackTick(j) = TrackTick(k)
                    /\ track[j + 1].type = "note_on"
                    /\ track[k + 1].type = "note_off")

-----------------------------------------------------------------------------
(* Properties of the Note constructor and of the worker.                   *)

\* C16: a Note(...) call with duration <= 0, midi_number outside [0, 127] or
\* confidence outside [0, 1] raises instead of yielding a note: the note list
\* is left as it was and the stage is left with the error; the only step after
\* the error is the worker's, which sets the job's status to failed.
NoteErrorFailsJob ==
    [][/\ pc = "note" =>
            ((\/ call.duration <= 0
              \/ call.midi_number < 0 \/ call.midi_number > 127
              \/ call.confidence < 0 \/ call.confidence > 1000)
                => pc' = "error" /\ notes' = notes)
       /\ pc = "error" => (pc' = "failed" /\ job'.status = "failed" /\ notes' = notes)]_vars

-----------------------------------------------------------------------------
(* Properties of the energy gate.                                          *)

AllSilent == energy # <<>> /\ \A k \in 1..Len(energy) : energy[k] = 0

\* A frame that the two pitch gates let through.
PitchGatesPass(k) ==
    frames[k].frequency > MinFreq /\ frames[k].confidence >= ConfidenceThreshold

\* C18: the threshold computed from an energy array is never below 0.005,
\* and when every frame has an energy entry and every entry is 0,
\* segment_notes returns no note.
SilenceYieldsNoNotes ==
    /\ (energy # <<>> /\ pc \in {"segment", "merge"}) =>
           threshold >= ThresholdFloor * ThrScale
    /\ (pc = "merge" /\ AllSilent /\ Len(energy) >= Len(frames)) => notes = <<>>

\* Six frames in a row pass the pitch gates, the energy is 0 throughout, and
\* segment_notes has returned.
SilentToneSegmented ==
    /\ pc = "merge"
    /\ AllSilent
    /\ Len(energy) >= Len(frames)
    /\ threshold = ThresholdFloor * ThrScale
    /\ \E a \in 1..Len(frames) :
           a + 5 <= Len(frames) /\ \A k \in a..(a + 5) : PitchGatesPass(k)
    /\ notes = <<>>

\* C19: a frame counts as valid exactly when its frequency is above 80 Hz,
\* its confidence is at least the confidence threshold and, if the energy
\* array has an entry for it, that entry is above the energy threshold; a
\* frame with no entry, or with no array at all, passes the energy gate.
\* (A note is open after a frame exactly when the frame counted as valid.)
MissingEnergyPassesGate ==
    [][(pc = "segment" /\ i <= Len(frames) /\ i' = i + 1) =>
           ((current_midi' # NoMidi) <=>
               /\ PitchGatesPass(i)
               /\ (i <= Len(energy) => energy[i] * ThrScale > threshold))]_vars

\* A frame rejected by the energy gate alone, and later a frame past the end
\* of the energy array that has opened a note.
NoteOpenedPastEnergy ==
    /\ pc = "segment"
    /\ energy # <<>>
    /\ i - 1 > Len(energy)
    /\ current_midi # NoMidi
    /\ \E k \in 1..Len(energy) :
           PitchGatesPass(k) /\ energy[k] * ThrScale <= threshold

-----------------------------------------------------------------------------
(* Properties of _find_best_key's scan.                                    *)

\* The place of candidate <<tonic, mode>> in the scan.
ScanIndex(c) == 2 * c[1] + (IF c[2] = "major" THEN 1 ELSE 2)

\* The histogram of the window of section sk over the notes ns.
SectionHistogram(ns, sk) ==
    Reduced(Histogram(ns, sk.start_time, sk.start_time + key_window[1]))

\* Candidate w has the highest correlation as computed, and every candidate
\* scanned before it has a smaller one.
FirstOfHighest(h, w, r) ==
    \A j \in 1..24 :
        /\ ~CorrGreaterRounded(h, Candidates[j], w, r)
        /\ j < ScanIndex(w) => CorrGreaterRounded(h, w, Candidates[j], r)

\* C20: the key of every section is the candidate with the highest computed
\* correlation of the 24, and of several candidates with that same value the
\* first one scanned, tonic 0..11 and major before minor.
BestKeyIsFirstOfHighest ==
    [][(pc = "key" /\ pc' = "done") =>
           \A k \in 1..Len(section_keys') :
               LET h == SectionHistogram(notes, section_keys'[k])
               IN  ~CorrIsNaN(h) =>
                       FirstOfHighest(h, <<section_keys'[k].tonic, section_keys'[k].mode>>,
                                      rounding'[k])]_vars

\* A section whose key shares the highest computed correlation with a candidate
\* scanned after it; no note was removed, so the histogram is that of the call.
TiedKeyDetected ==
    /\ pc = "done"
    /\ \A k \in 1..Len(notes) : notes[k].confidence >= KeyOutlierMaxConfidence
    /\ \E k \in 1..Len(section_keys) :
           LET h == SectionHistogram(notes, section_keys[k])
               w == <<section_keys[k].tonic, section_keys[k].mode>>
           IN  /\ ~CorrIsNaN(h)
               /\ rounding[k] = 0
               /\ \E j \in (ScanIndex(w) + 1)..24 :
                      /\ ~CorrGreaterRounded(h, Candidates[j], w, 0)
                      /\ ~CorrGreaterRounded(h, w, Candidates[j], 0)

-----------------------------------------------------------------------------
(* Properties of post_process_pitch.                                       *)

\* C21: post_process_pitch is idempotent: a pass over the output of a pass
\* returns the frames it was given.
PostProcessIdempotent ==
    pc = "post_process" /\ i >= 2 => frames = out

\* Frame k of fs lies in a run of fewer than n voiced frames, a voiced frame
\* being one of frequency above 0 and confidence above 0.1.
InShortRun(fs, k, n) ==
    LET v(j) == fs[j].frequency # 0 /\ fs[j].confidence > 100
    IN  \E a \in 1..k, b \in k..Len(fs) :
            /\ \A j \in a..b : v(j)
            /\ a = 1 \/ ~v(a - 1)
            /\ b = Len(fs) \/ ~v(b + 1)
            /\ b - a + 1 < n

\* C22: post_process_pitch returns as many frames as it was given, each with
\* its time and confidence; a frame that is not voiced (frequency 0 or
\* confidence <= 0.1) or lies in a voiced run of fewer than 5 frames keeps its
\* frequency, and fewer than 5 frames are returned as they are.
PostProcessKeepsFrames ==
    [][(pc = "post_process" /\ i' = i + 1) =>
          /\ Len(frames') = Len(frames)
          /\ \A k \in 1..Len(frames) :
                 /\ frames'[k].time = frames[k].time
                 /\ frames'[k].confidence = frames[k].confidence
                 /\ (frames[k].frequency = 0 \/ frames[k].confidence <= 100
                        \/ InShortRun(frames, k, 5))
                      => frames'[k].frequency = frames[k].frequency
          /\ Len(frames) < 5 => frames' = frames]_vars

\* A pass has changed a frequency of frames that hold a tone at confidence
\* 0.1 exactly and a voiced run of fewer than 5 frames.
EdgeFrameKept ==
    /\ pc = "post_process" /\ i = 1
    /\ frames # out
    /\ \E k \in 1..Len(out) : out[k].frequency > 0 /\ out[k].confidence = 100
    /\ \E k \in 1..Len(out) : out[k].confidence > 100 /\ InShortRun(out, k, 5)

-----------------------------------------------------------------------------
(* Properties of refine_onsets' effect on a note.                          *)

-----------------------------------------------------------------------------
(* Properties of the durations segment_notes measures.                     *)

\* C27: every note segment_notes emits, be it closed by a later frame (its
\* end is that frame's time) or closed after the last frame (its end is the
\* last frame's time + 0.01 s), is made of the frames read since its start,
\* has a duration of that number of frames times 0.01 s, and has at least 5
\* frames.
SegmentMeasuresFrames ==
    [][(pc = "segment" /\ notes' # notes) =>
          LET n == notes'[Len(notes')]
              count == Len(note_freqs)
          IN  /\ notes' = Append(notes, n)
              /\ count >= 5
              /\ note_start = frames[i - count].time
              /\ n.start_time = note_start + trim_offset
              /\ n.duration = count * Hop
              /\ end_time(n) = (IF i <= Len(frames) THEN frames[i].time
                                ELSE frames[Len(frames)].time + Hop) + trim_offset]_vars

\* segment_notes has returned a note of exactly 5 frames closed by a later
\* frame and, after it, a note closed after the last frame.
InteriorAndFinalNote ==
    /\ pc = "merge"
    /\ Len(notes) >= 2
    /\ notes[1].duration = 5 * Hop
    /\ end_time(notes[Len(notes)]) = frames[Len(frames)].time + Hop + trim_offset

-----------------------------------------------------------------------------
(* Properties of the averages merge_same_pitch_notes writes.               *)

\* C28: when merge_same_pitch_notes fuses note into prev, the fused note's
\* frequency lies between the smaller and the larger of the two frequencies,
\* and its confidence between the smaller and the larger of the two
\* confidences.
FusedIsWeightedAverage ==
    [][(pc = "merge_loop" /\ pc' = "merge_loop" /\ Len(out') = Len(out)) =>
          LET prev == out[Len(out)]
              note == notes[i]
              fused == out'[Len(out')]
          IN  /\ Min(prev.frequency, note.frequency) <= fused.frequency
              /\ fused.frequency <= Max(prev.frequency, note.frequency)
              /\ Min(prev.confidence, note.confidence) <= fused.confidence
              /\ fused.confidence <= Max(prev.confidence, note.confidence)]_vars

-----------------------------------------------------------------------------
(* Properties of process_audio_job, _send_webhook and get_job_result.      *)

\* The POSTs that raised or were answered with a status of 300 or more.
FailedPosts == {k \in 1..Len(posts) : posts[k] # "ok"}

\* C24: _send_webhook makes at most WEBHOOK_MAX_RETRIES POSTs; its sleeps are
\* of 1, 2, 4, 8, 16 s in that order, one after each POST that raised or got a
\* status of 300 or more and none otherwise; no POST follows one answered
\* with a status below 300; webhook_sent is 1 only after such an answer; and
\* every POST is made with the job committed as completed.
WebhookRetriesWithBackoff ==
    /\ Len(posts) <= WebhookMaxRetries
    /\ \A k \in 1..Len(waits) : waits[k] = 2^(k - 1)
    /\ Len(waits) <= Cardinality(FailedPosts)
    /\ (pc \in {"post", "returned"} => Len(waits) = Cardinality(FailedPosts))
    /\ \A k \in 1..(Len(posts) - 1) : posts[k] # "ok"
    /\ ((job # NoJob /\ job.webhook_sent = 1) =>
          \E k \in 1..Len(posts) : posts[k] = "ok")
    /\ (posts # <<>> => job.status = "completed")

\* C25: a committed row with status completed has progress 100 and its
\* results set; an answer of GET /jobs/{id}/result is 404 when the store has
\* no row, 400 when the row's status is not completed, and otherwise 200 with
\* the row's results, which are set.
CompletedRowHasResults ==
    [][
       /\ ((job' # NoJob /\ job'.status = "completed") =>
             (job'.progress = 100 /\ job'.result))
       /\ api' # api =>
             /\ (job = NoJob => api'.code = 404)
             /\ ((job # NoJob /\ job.status # "completed") => api'.code = 400)
             /\ ((job # NoJob /\ job.status = "completed") =>
                    (api'.code = 200 /\ api'.result))
             /\ (api'.code = 200 => (job # NoJob /\ job.status = "completed"))
    ]_vars

\* A request was answered with the result while the worker was between two
\* attempts of the webhook.
ResultServedDuringWebhook ==
    /\ pc = "sleep"
    /\ api # <<>>
    /\ api.code = 200 /\ api.result

\* The progress update_job_status writes after progress n.
ProgressAfter(n) ==
    CASE n = 0 -> 10 [] n = 10 -> 30 [] n = 30 -> 60 [] n = 60 -> 90 [] n = 90 -> 100
      [] n = 100 -> 100

\* The place of statement p in process_audio_job.
StepRank(p) ==
    CASE p = "get_job" -> 0 [] p = "progress_10" -> 1 [] p = "load" -> 2
      [] p = "progress_30" -> 3 [] p = "detect" -> 4 [] p = "progress_60" -> 5
      [] p = "segment_stage" -> 6 [] p = "progress_90" -> 7 [] p = "output" -> 8
      [] p = "complete" -> 9 [] OTHER -> 10

\* C26: a job that process_audio_job has found reaches status completed or
\* failed.  Its progress goes 10, 30, 60, 90 in that order with status
\* processing, then 100, and never decreases; no statement is run again; the
\* task returns from a found job only with status completed; and when a step up
\* to complete_job raised, the job ends failed with error_message set to the
\* exception's text.
JobEndsCompletedOrFailed ==
    /\ (pc = "progress_10") ~> (job # NoJob /\ job.status \in {"completed", "failed"})
    /\ [][
          /\ job # NoJob =>
                /\ job'.progress \in {job.progress, ProgressAfter(job.progress)}
                /\ job'.progress >= job.progress
                /\ ((job'.progress # job.progress /\ job'.progress < 100)
                       => job'.status = "processing")
          /\ StepRank(pc') >= StepRank(pc)
          /\ ((pc # pc' /\ StepRank(pc) < 10 /\ StepRank(pc') < 10)
                => StepRank(pc') = StepRank(pc) + 1)
          /\ ((pc' = "returned" /\ job' # NoJob) => job'.status = "completed")
          /\ (pc' = "failed" /\ pc # pc' /\ job # NoJob) =>
                /\ pc = "error"
                /\ job'.status = "failed"
                /\ job'.error_message = exc
                /\ job'.progress = job.progress
       ]_vars

NoPostAfterDelivery ==
    [][(\E k \in 1..Len(posts) : posts[k] = "ok") => posts' = posts]_vars

====
